---------------------------- MODULE Spec2Model ----------------------------
(***************************************************************************)
(* Matching & embedding subsystem of MatchMyStack (backend/app).           *)
(*                                                                         *)
(* Spec       : the scoring engine (app/services/matching_engine.py) as a  *)
(*              library: one call of one of its functions per behaviour,   *)
(*              the inputs drawn from bounded sets.                        *)
(* SpecFacade : MatchingEngineWrapper.ensure_embedding and the embed       *)
(*              methods of its EmbeddingEngine, called one after another.  *)
(* SpecEngine : EmbeddingEngine._encode_text under concurrent callers,     *)
(*              line by line.                                              *)
(* SpecApi    : the process behind the match and project routes, one       *)
(*              request per step.                                          *)
(* SpecSwipe  : concurrent requests of the swipe route, line by line.      *)
(* SpecMatch  : one call of MatchingEngine.match_user_to_project.          *)
(*                                                                         *)
(* Numbers.  Python floats are modelled in fixed point.  A sub-score is an *)
(* integer number of 1/Unit; every constant of the code (0.05, 0.15, 0.8,  *)
(* ...) and every ratio of the inputs (k/n, n <= 6, and k/10) is a whole   *)
(* number of 1/Unit.  A final score is a whole number of 1/(100*Unit), the *)
(* weights being whole percents.                                           *)
(*                                                                         *)
(* Strings.  A Python str is a sequence of one-character strings, so that  *)
(* lower(), strip() and replace() are computed character by character.     *)
(***************************************************************************)
EXTENDS Integers, Sequences, FiniteSets, TLC

VARIABLES
    fn,                 \* the function called last ("none" before any call)
    args,               \* its arguments
    ret,                \* what it returned or raised
    embedding_engine,   \* MatchingEngineWrapper.embedding_engine: an engine or None
    ncalls,             \* calls made on the wrapper and its engine so far
    callers,            \* concurrent callers of _encode_text: where each one is
    fits,               \* history: fits of the vectorizer that completed
    embedded,           \* history: [text, value] of the calls begun on a fit engine
    engines,            \* every EmbeddingEngine the process has constructed
    scorers,            \* history: MatchingEngine objects the process has constructed
    matcher,            \* projects.py: the module's MatchingEngineWrapper
    _matcher,           \* match.py: the wrapper get_matcher() hands out, or None
    projects,           \* the rows of the projects table
    matches_table,      \* the rows of the matches table: one user's decision on a project
    produced,           \* history: [engine, vocabulary] of every computed embedding
    nrequests           \* requests served so far

vars == <<fn, args, ret, embedding_engine, ncalls, callers, fits, embedded,
          engines, scorers, matcher, _matcher, projects, matches_table,
          produced, nrequests>>

\* The process behind the API.
apiSide == <<engines, scorers, matcher, _matcher, projects, matches_table,
          produced, nrequests>>

\* What a call made by a single caller leaves alone.
threadSide == <<callers, fits, embedded, apiSide>>

\* What a call of the scoring library leaves alone.
engineSide == <<embedding_engine, ncalls, threadSide>>

(***************************************************************************)
(* Python values.  A value that may be None, or of more than one type, is  *)
(* carried with its type: None, a list, an int, a str, a vector.           *)
(***************************************************************************)
None == [none |-> TRUE]

PyList(s) == [list |-> s]

PyInt(n) == [int |-> n]

PyStr(s) == [str |-> s]

PyVec(v) == [vec |-> v]

IsList(x) == DOMAIN x = {"list"}

IsInt(x) == DOMAIN x = {"int"}

IsStr(x) == DOMAIN x = {"str"}

IsVec(x) == DOMAIN x = {"vec"}

\* bool(x) is False: None, [], '' and 0.
Falsy(x) == x \in {None, PyList(<<>>), PyStr(<<>>), PyInt(0)}

\* x or []
OrEmpty(x) == IF Falsy(x) THEN <<>> ELSE x.list

\* No process.
NoApi ==
    /\ engines = <<>> /\ scorers = 0 /\ matcher = None /\ _matcher = None
    /\ projects = <<>> /\ matches_table = <<>> /\ produced = {} /\ nrequests = 0

\* No concurrent callers.
NoCallers == callers = <<>> /\ fits = 0 /\ embedded = {}

(***************************************************************************)
(* Bounds of the model                                                     *)
(***************************************************************************)
\* Longest required-skill list of a target.
MaxReqSkills == 3

\* Most years of experience of a candidate in a direct call of
\* calculate_experience_fit.
MaxYears == 12

\* Largest experience bound of a target in such a call.
MaxExpBound == 6

\* Longest candidate list of a call of rank_candidates.
MaxCandidates == 3

\* Longest string of a direct call of normalize_skill.
MaxSkillLen == 3

(***************************************************************************)
(* Fixed point                                                             *)
(***************************************************************************)
\* 1.0 as a sub-score.
Unit == 300

\* 1.0 as a final score: sub-score (1/Unit) times weight (1/100).
ScoreOne == 100 * Unit

Min2(a, b) == IF a <= b THEN a ELSE b

Max2(a, b) == IF a >= b THEN a ELSE b

Range(s) == {s[i] : i \in 1..Len(s)}

(***************************************************************************)
(* str                                                                     *)
(***************************************************************************)
\* ord(c) of the characters the model's strings are made of.
CharCode == [c \in {"\t", " ", "-", ".", "D", "J", "M", "P", "_",
                    "c", "d", "e", "g", "j", "l", "m", "o", "p", "r", "s", "v", "y"} |->
    CASE c = "\t" -> 9  [] c = " " -> 32 [] c = "-" -> 45 [] c = "." -> 46
      [] c = "D" -> 68  [] c = "J" -> 74 [] c = "M" -> 77 [] c = "P" -> 80
      [] c = "_" -> 95  [] c = "c" -> 99 [] c = "d" -> 100 [] c = "e" -> 101
      [] c = "g" -> 103 [] c = "j" -> 106 [] c = "l" -> 108 [] c = "m" -> 109
      [] c = "o" -> 111 [] c = "p" -> 112 [] c = "r" -> 114 [] c = "s" -> 115
      [] c = "v" -> 118 [] c = "y" -> 121]

\* str.lower() of one character.
LowerChar(c) ==
    CASE c = "D" -> "d" [] c = "J" -> "j" [] c = "M" -> "m" [] c = "P" -> "p"
      [] OTHER -> c

\* str.lower()
Lower(s) == [i \in 1..Len(s) |-> LowerChar(s[i])]

\* The characters str.strip() removes.
IsSpace(c) == c \in {" ", "\t"}

\* str.strip(): leading and trailing whitespace removed.
Strip(s) ==
    LET keep == {i \in 1..Len(s) : ~IsSpace(s[i])}
    IN  IF keep = {} THEN <<>>
        ELSE LET lo == CHOOSE i \in keep : \A j \in keep : i <= j
                 hi == CHOOSE i \in keep : \A j \in keep : i >= j
             IN  SubSeq(s, lo, hi)

\* str.replace(c, ''): every occurrence of the character removed.
RECURSIVE Remove(_, _)
Remove(s, c) ==
    IF s = <<>> THEN <<>>
    ELSE IF Head(s) = c THEN Remove(Tail(s), c)
         ELSE <<Head(s)>> \o Remove(Tail(s), c)

\* Python's < on str: lexicographic by code point, a proper prefix first.
RECURSIVE StrLess(_, _)
StrLess(a, b) ==
    IF b = <<>> THEN FALSE
    ELSE IF a = <<>> THEN TRUE
    ELSE IF CharCode[Head(a)] # CharCode[Head(b)]
         THEN CharCode[Head(a)] < CharCode[Head(b)]
         ELSE StrLess(Tail(a), Tail(b))

\* sorted(keys) of a set of str.
RECURSIVE SortedStrs(_)
SortedStrs(S) ==
    IF S = {} THEN <<>>
    ELSE LET m == CHOOSE x \in S : \A y \in S : y = x \/ StrLess(x, y)
         IN  <<m>> \o SortedStrs(S \ {m})

\* normalize_skill: lower, strip, then '.', ' ', '-' and '_' removed.
normalize_skill(skill) ==
    Remove(Remove(Remove(Remove(Strip(Lower(skill)), "."), " "), "-"), "_")

(***************************************************************************)
(* MatchingEngine: the sub-scores                                          *)
(***************************************************************************)
\* {normalize_skill(s): s for s in skills}: a later spelling of a key
\* replaces an earlier one.
RECURSIVE NormalizedMap(_)
NormalizedMap(skills) ==
    IF skills = <<>> THEN <<>>
    ELSE LET front == NormalizedMap(SubSeq(skills, 1, Len(skills) - 1))
             last  == skills[Len(skills)]
             k     == normalize_skill(last)
         IN  IF \E i \in 1..Len(front) : front[i].key = k
             THEN [i \in 1..Len(front) |->
                      IF front[i].key = k THEN [key |-> k, val |-> last] ELSE front[i]]
             ELSE Append(front, [key |-> k, val |-> last])

\* d.keys() of such a dict.
Keys(d) == {d[i].key : i \in 1..Len(d)}

\* d[k]
Lookup(d, k) == (CHOOSE e \in Range(d) : e.key = k).val

\* [req_normalized[k] for k in sorted(keys)]: the target's spelling of each key.
ReqSpellings(req_normalized, keys) ==
    LET sk == SortedStrs(keys)
    IN  [i \in 1..Len(sk) |-> Lookup(req_normalized, sk[i])]

\* Legacy variant of the complementary list: the skills the user has beyond
\* the requirements, in the user's spelling.
ComplementaryListUserOnly(user_normalized, req_normalized) ==
    LET sk == SortedStrs(Keys(user_normalized) \ Keys(req_normalized))
    IN  [i \in 1..Len(sk) |-> Lookup(user_normalized, sk[i])]

\* complementary: the skills the project requires and the user lacks.
ComplementaryList(user_normalized, req_normalized) ==
    ReqSpellings(req_normalized, Keys(req_normalized) \ Keys(user_normalized))

\* shared: the skills present on both sides.
SharedList(user_normalized, req_normalized) ==
    ReqSpellings(req_normalized, Keys(user_normalized) \cap Keys(req_normalized))

\* The bonus without its cap.
ComplementaryBonusUncapped(n) == n * (Unit \div 20)

\* min(n * 0.05, 0.2): the bonus for the user-only skills.
ComplementaryBonus(n) == Min2(n * (Unit \div 20), Unit \div 5)

\* calculate_skill_overlap with the overlap taken over the skills of both
\* sides, and no bonus.
calculate_skill_overlap_of_union(user_skills, required_skills) ==
    IF Falsy(required_skills)
    THEN [score |-> Unit \div 2, shared |-> <<>>, complementary |-> <<>>]
    ELSE LET user_normalized == NormalizedMap(OrEmpty(user_skills))
             req_normalized  == NormalizedMap(OrEmpty(required_skills))
             shared_keys     == Keys(user_normalized) \cap Keys(req_normalized)
             all_keys        == Keys(user_normalized) \cup Keys(req_normalized)
         IN  [score |-> (Cardinality(shared_keys) * Unit) \div Cardinality(all_keys),
              shared |-> SharedList(user_normalized, req_normalized),
              complementary |-> ComplementaryList(user_normalized, req_normalized)]

\* calculate_skill_overlap: (score, shared, complementary).
calculate_skill_overlap(user_skills, required_skills) ==
    IF Falsy(required_skills)
    THEN [score |-> Unit \div 2, shared |-> <<>>, complementary |-> <<>>]
    ELSE LET user_normalized == NormalizedMap(OrEmpty(user_skills))
             req_normalized  == NormalizedMap(OrEmpty(required_skills))
             shared_keys     == Keys(user_normalized) \cap Keys(req_normalized)
             overlap_ratio   == (Cardinality(shared_keys) * Unit) \div Len(req_normalized)
             user_only_keys  == Keys(user_normalized) \ Keys(req_normalized)
             bonus           == ComplementaryBonus(Cardinality(user_only_keys))
         IN  [score |-> Min2(overlap_ratio + bonus, Unit),
              shared |-> SharedList(user_normalized, req_normalized),
              complementary |-> ComplementaryList(user_normalized, req_normalized)]

\* calculate_role_match without its early return for a target that requires
\* no role.
calculate_role_match_no_default(user_roles, required_roles) ==
    LET user_set == {Lower(r) : r \in Range(OrEmpty(user_roles))}
        req_set  == {Lower(r) : r \in Range(OrEmpty(required_roles))}
        matched  == user_set \cap req_set
    IN  [score |-> IF req_set # {} THEN (Cardinality(matched) * Unit) \div Cardinality(req_set)
                   ELSE 0,
         matched |-> matched]

\* calculate_role_match comparing the roles as they are written.
calculate_role_match_case_sensitive(user_roles, required_roles) ==
    IF Falsy(required_roles)
    THEN [score |-> Unit, matched |-> {}]
    ELSE LET user_set == Range(OrEmpty(user_roles))
             req_set  == Range(required_roles.list)
             matched  == user_set \cap req_set
         IN  [score |-> (Cardinality(matched) * Unit) \div Cardinality(req_set),
              matched |-> matched]

\* calculate_role_match: (ratio, matched).  list(user_set & req_set) has the
\* iteration order of a Python set, which the code does not fix: matched is
\* carried as the set.
calculate_role_match(user_roles, required_roles) ==
    IF Falsy(required_roles)
    THEN [score |-> Unit, matched |-> {}]
    ELSE LET user_set == {Lower(r) : r \in Range(OrEmpty(user_roles))}
             req_set  == {Lower(r) : r \in Range(required_roles.list)}
             matched  == user_set \cap req_set
         IN  [score |-> (Cardinality(matched) * Unit) \div Cardinality(req_set),
              matched |-> matched]

\* user_exp < required_exp_min raises TypeError unless both are numbers.
ExperienceRaises(user_exp, required_exp_min, required_exp_max) ==
    \/ ~IsInt(user_exp) \/ ~IsInt(required_exp_min)
    \/ (user_exp.int >= required_exp_min.int /\ ~IsInt(required_exp_max))

\* calculate_experience_fit without the floors 0.5 and 0.7.
calculate_experience_fit_no_floor(user_exp, required_exp_min, required_exp_max) ==
    IF user_exp.int < required_exp_min.int
    THEN Unit - (required_exp_min.int - user_exp.int) * ((15 * Unit) \div 100)
    ELSE IF user_exp.int > required_exp_max.int
    THEN Unit - (user_exp.int - required_exp_max.int) * ((5 * Unit) \div 100)
    ELSE Unit

\* calculate_experience_fit, for arguments on which it does not raise.
calculate_experience_fit(user_exp, required_exp_min, required_exp_max) ==
    IF user_exp.int < required_exp_min.int
    THEN Max2(Unit \div 2, Unit - (required_exp_min.int - user_exp.int) * ((15 * Unit) \div 100))
    ELSE IF user_exp.int > required_exp_max.int
    THEN Max2((7 * Unit) \div 10, Unit - (user_exp.int - required_exp_max.int) * ((5 * Unit) \div 100))
    ELSE Unit

\* calculate_availability_score
calculate_availability_score(user_tz, project_tz) ==
    IF Falsy(user_tz) \/ Falsy(project_tz) THEN Unit
    ELSE IF user_tz = project_tz THEN Unit ELSE (8 * Unit) \div 10

(***************************************************************************)
(* Cosine similarity.  A vector is a sequence of integers, its components  *)
(* up to one positive factor (the cosine does not depend on the factor).   *)
(***************************************************************************)
\* The sum of a[i] * b[i] for i in lo..hi, by halves.
RECURSIVE DotRange(_, _, _, _)
DotRange(a, b, lo, hi) ==
    IF lo > hi THEN 0
    ELSE IF lo = hi THEN a[lo] * b[lo]
    ELSE LET mid == (lo + hi) \div 2
         IN  DotRange(a, b, lo, mid) + DotRange(a, b, mid + 1, hi)

Dot(a, b) == DotRange(a, b, 1, Len(a))

\* The one member of a set of one: its member is computed once, whatever
\* the number of places that read it.
The(S) == CHOOSE x \in S : TRUE

\* The greatest common divisor of two positive numbers.
RECURSIVE GCD(_, _)
GCD(a, b) == IF b = 0 THEN a ELSE GCD(b, a % b)

\* The largest c in lo..hi with c * c * nn <= Unit * Unit * dd, by halves
\* (lo is such a c).
RECURSIVE LargestWithin(_, _, _, _)
LargestWithin(dd, nn, lo, hi) ==
    IF lo = hi THEN lo
    ELSE LET mid == (lo + hi + 1) \div 2
         IN  IF mid * mid * nn <= Unit * Unit * dd
             THEN LargestWithin(dd, nn, mid, hi)
             ELSE LargestWithin(dd, nn, lo, mid - 1)

\* d / sqrt(n) in 1/Unit, rounded toward zero; 0 when d or n is 0: the
\* largest c of 0..Unit with c * c * n <= Unit * Unit * d * d, with the sign
\* of d.  d * d and n are compared in lowest terms, which keeps the products
\* small.
CosineOf(d, n) ==
    IF n = 0 \/ d = 0 THEN 0
    ELSE LET g   == GCD(d * d, n)
             mag == LargestWithin((d * d) \div g, n \div g, 0, Unit)
         IN  IF d > 0 THEN mag ELSE 0 - mag

\* sklearn's cosine_similarity of two rows, in 1/Unit, rounded toward zero:
\* a row of norm zero is left as it is, so its cosine is 0.
CosineUnits(a, b) ==
    The({The({CosineOf(dn[1], dn[2]) : dn \in {<<Dot(x, y), Dot(x, x) * Dot(y, y)>>}}) :
         x \in {a}, y \in {b}})

\* EmbeddingEngine.cosine_similarity raises on rows of different or zero width.
CosineRaises(v1, v2) ==
    \/ ~IsVec(v1) \/ ~IsVec(v2)
    \/ Len(v1.vec) # Len(v2.vec) \/ Len(v1.vec) = 0

\* EmbeddingEngine.cosine_similarity(v1, v2): the cosine, or the exception.
\* np.array(None).reshape(1, -1) is a row holding None, which sklearn refuses
\* to turn into floats; rows of different width are refused as well.
cosine_similarity(v1, v2) ==
    IF ~IsVec(v1) \/ ~IsVec(v2) THEN [raised |-> "TypeError"]
    ELSE IF CosineRaises(v1, v2) THEN [raised |-> "ValueError"]
    ELSE [raised |-> "no", value |-> CosineUnits(v1.vec, v2.vec)]

\* calculate_embedding_score
calculate_embedding_score(emb1, emb2) ==
    IF emb1 = None \/ emb2 = None THEN 0
    ELSE IF CosineRaises(emb1, emb2) THEN 0
    ELSE CosineUnits(emb1.vec, emb2.vec)

\* [0.1] * 384
Filler == [v |-> [i \in 1..384 |-> 1], norm2 |-> 100]

(***************************************************************************)
(* MatchingEngine.match_user_to_project                                    *)
(***************************************************************************)
\* A key the dict does not hold.
Missing == [missing |-> TRUE]

\* d.get(k, default)
Get(d, k, default) == IF d[k] = Missing THEN default ELSE d[k]

\* a or b
Or(a, b) == IF Falsy(a) THEN b ELSE a

\* WEIGHTS, in percent.
W_skill_overlap == 45

W_embedding_similarity == 25

W_role_match == 15

W_experience_fit == 6

W_hackathon_bonus == 5

W_availability == 4

\* str(n) of a non-negative int.
RECURSIVE DecimalStr(_)
DecimalStr(n) ==
    LET digit == <<"0", "1", "2", "3", "4", "5", "6", "7", "8", "9">>[(n % 10) + 1]
    IN  IF n < 10 THEN <<digit>> ELSE Append(DecimalStr(n \div 10), digit)

\* str(project_data.get("id", "unknown"))
TargetId(project_data) ==
    LET id == Get(project_data, "id", PyStr(<<"u", "n", "k", "n", "o", "w", "n">>))
    IN  IF IsInt(id) THEN PyStr(DecimalStr(id.int)) ELSE id

\* The boost without its cap.
SharedBoostUncapped(shared_count) == shared_count * ((2 * ScoreOne) \div 100)

\* min(len(shared_skills) * 0.02, 0.12), as a final score.
SharedBoost(shared_count) == Min2(shared_count * ((2 * ScoreOne) \div 100), (12 * ScoreOne) \div 100)

\* The clamp without its upper bound.
ClampLowerOnly(final_score) == Max2(0, final_score)

\* max(0.0, min(1.0, final_score))
Clamp(final_score) == Max2(0, Min2(ScoreOne, final_score))

\* The reasons with the bonus line already given for two entries.
ReasonsBonusFromTwo(shared_count, required_count, matched_roles, complementary, emb_score) ==
    (IF shared_count > 0
     THEN <<[reason |-> "required skills matched", shared |-> shared_count,
             required |-> required_count]>>
     ELSE <<>>)
    \o (IF required_count > 0 /\ shared_count >= Max2(1, (required_count * 8) \div 10)
        THEN <<[reason |-> "Strong skill match!"]>> ELSE <<>>)
    \o (IF matched_roles # {} THEN <<[reason |-> "Role fit", roles |-> matched_roles]>> ELSE <<>>)
    \o (IF Len(complementary) >= 2
        THEN <<[reason |-> "bonus skills", n |-> Len(complementary)]>> ELSE <<>>)
    \o (IF emb_score * 10 > 7 * Unit
        THEN <<[reason |-> "Profile similarity", emb_score |-> emb_score]>> ELSE <<>>)

\* The reasons, in the order the code appends them.
Reasons(shared_count, required_count, matched_roles, complementary, emb_score) ==
    (IF shared_count > 0
     THEN <<[reason |-> "required skills matched", shared |-> shared_count,
             required |-> required_count]>>
     ELSE <<>>)
    \o (IF required_count > 0 /\ shared_count >= Max2(1, (required_count * 8) \div 10)
        THEN <<[reason |-> "Strong skill match!"]>> ELSE <<>>)
    \o (IF matched_roles # {} THEN <<[reason |-> "Role fit", roles |-> matched_roles]>> ELSE <<>>)
    \o (IF Len(complementary) >= 3
        THEN <<[reason |-> "bonus skills", n |-> Len(complementary)]>> ELSE <<>>)
    \o (IF emb_score * 10 > 7 * Unit
        THEN <<[reason |-> "Profile similarity", emb_score |-> emb_score]>> ELSE <<>>)

\* The target's skill list: "skills", else "required_skills", else [].
ProjSkills(project_data) ==
    Or(Or(Get(project_data, "skills", None),
          Get(project_data, "required_skills", PyList(<<>>))),
       PyList(<<>>))

\* Steps 1 to 5 of match_user_to_project: the five sub-scores, for records on
\* which it does not raise.
SubScores(user_data, project_data) ==
    LET user_emb == Get(user_data, "embedding", None)
        proj_emb == Get(project_data, "embedding", None)
    IN  [overlap |-> calculate_skill_overlap(
                        Or(Get(user_data, "skills", PyList(<<>>)), PyList(<<>>)),
                        ProjSkills(project_data)),
         emb     |-> IF user_emb # None /\ proj_emb # None
                     THEN calculate_embedding_score(user_emb, proj_emb) ELSE 0,
         roles   |-> calculate_role_match(
                        Get(user_data, "roles", PyList(<<>>)),
                        Or(Get(project_data, "required_roles", PyList(<<>>)),
                           Get(project_data, "roles", PyList(<<>>)))),
         exp     |-> calculate_experience_fit(
                        Get(user_data, "experience_years", PyInt(0)),
                        Get(project_data, "min_experience", PyInt(0)),
                        Get(project_data, "max_experience", PyInt(10))),
         avail   |-> calculate_availability_score(
                        Get(user_data, "timezone", PyStr(<<>>)),
                        Get(project_data, "timezone", PyStr(<<>>)))]

\* The weighted sum with the shared-skill boost added, before the clamp.
BoostedScore(sub) ==
    sub.overlap.score * W_skill_overlap
    + sub.emb * W_embedding_similarity
    + sub.roles.score * W_role_match
    + sub.exp * W_experience_fit
    + sub.avail * W_availability
    + SharedBoost(Len(sub.overlap.shared))

\* match_user_to_project: the Match, or the exception it raises.
match_user_to_project(user_data, project_data) ==
    IF ExperienceRaises(Get(user_data, "experience_years", PyInt(0)),
                        Get(project_data, "min_experience", PyInt(0)),
                        Get(project_data, "max_experience", PyInt(10)))
    THEN [raised |-> "TypeError"]
    ELSE The({[raised |-> "no",
               target_id |-> TargetId(project_data),
               score |-> Clamp(BoostedScore(sub)),
               reasons |-> Reasons(Len(sub.overlap.shared),
                                   Len(ProjSkills(project_data).list),
                                   sub.roles.matched, sub.overlap.complementary, sub.emb),
               shared_skills |-> sub.overlap.shared,
               complementary_skills |-> sub.overlap.complementary] :
              sub \in {SubScores(user_data, project_data)}})

(***************************************************************************)
(* MatchingEngine.rank_candidates                                          *)
(***************************************************************************)
\* The sort key without its second component.
ScoreOnlyGE(a, b) == a.score >= b.score

\* (a.score, len(a.shared_skills)) >= (b.score, len(b.shared_skills))
RankKeyGE(a, b) ==
    \/ a.score > b.score
    \/ a.score = b.score /\ Len(a.shared_skills) >= Len(b.shared_skills)

\* m put into a list sorted in descending order, behind the entries whose
\* key is not below its own.
RECURSIVE InsertDescending(_, _)
InsertDescending(m, sorted) ==
    IF sorted = <<>> THEN <<m>>
    ELSE IF RankKeyGE(Head(sorted), m)
         THEN <<Head(sorted)>> \o InsertDescending(m, Tail(sorted))
         ELSE <<m>> \o sorted

\* list.sort(key=..., reverse=True): descending, entries of equal key in
\* their original order.
RECURSIVE SortedDescending(_)
SortedDescending(matches) ==
    IF matches = <<>> THEN <<>>
    ELSE InsertDescending(matches[Len(matches)],
                          SortedDescending(SubSeq(matches, 1, Len(matches) - 1)))

\* list[:k]
Slice(list, k) ==
    IF k >= 0 THEN SubSeq(list, 1, Min2(k, Len(list)))
    ELSE SubSeq(list, 1, Max2(Len(list) + k, 0))

\* The loop of rank_candidates: the Match of every candidate whose scoring
\* does not raise, in the order of the candidates.
RECURSIVE ScoredMatches(_, _)
ScoredMatches(candidates, project_data) ==
    IF candidates = <<>> THEN <<>>
    ELSE LET m == match_user_to_project(Head(candidates), project_data)
         IN  (IF m.raised = "no" THEN <<m>> ELSE <<>>)
                 \o ScoredMatches(Tail(candidates), project_data)

\* rank_candidates(candidates, project_data, top_k)
rank_candidates(candidates, project_data, top_k) ==
    Slice(SortedDescending(ScoredMatches(candidates, project_data)), top_k)

(***************************************************************************)
(* Inputs                                                                  *)
(***************************************************************************)
\* Skill spellings; the first two share the key "py".
SkillPool == << <<"p", "y">>, <<"P", ".", "y">>, <<"j", "s">>, <<"g", "o">>,
                <<"c">>, <<"r">>, <<"m", "l">> >>

\* The members of a set of pool indexes, in increasing order.
Ascending(S) == SelectSeq([i \in 1..Len(SkillPool) |-> i], LAMBDA i : i \in S)

Reverse(s) == [i \in 1..Len(s) |-> s[Len(s) + 1 - i]]

Spell(ix) == [i \in 1..Len(ix) |-> SkillPool[ix[i]]]

\* A candidate's skill lists: every choice of spellings, in pool order (the
\* code reads the candidate's list only through its set of keys).
UserSkillLists == {PyList(Spell(Ascending(S))) : S \in SUBSET (1..Len(SkillPool))}

\* A target's required-skill lists: up to MaxReqSkills spellings, in both
\* orders (the order decides which of two spellings of one key is kept).
ReqSkillLists ==
    LET subsets == {S \in SUBSET (1..Len(SkillPool)) : Cardinality(S) <= MaxReqSkills}
    IN  {PyList(Spell(Ascending(S))) : S \in subsets}
            \cup {PyList(Spell(Reverse(Ascending(S)))) : S \in subsets}

(***************************************************************************)
(* Spec: one library call                                                  *)
(***************************************************************************)
\* Contiguous runs of the pool: the candidate's skill lists of a direct call
\* of calculate_skill_overlap.
UserSkillRuns ==
    {PyList(Spell(Ascending(i..j))) : i \in 1..(Len(SkillPool) + 1), j \in 0..Len(SkillPool)}

\* The leading spellings of the pool: the candidate's skill lists when a
\* whole record is scored.
UserSkillPrefixes == {PyList(Spell(Ascending(1..j))) : j \in 0..Len(SkillPool)}

UTC == PyStr(<<"U", "T", "C">>)

IST == PyStr(<<"I", "S", "T">>)

Dev == <<"D", "e", "v">>

dev == <<"d", "e", "v">>

ml == <<"m", "l">>

\* The other fields of a candidate record.
UserTraits ==
    { [roles |-> PyList(<<>>), experience_years |-> Missing, timezone |-> None,
       embedding |-> None],
      [roles |-> PyList(<<Dev>>), experience_years |-> PyInt(5), timezone |-> UTC,
       embedding |-> PyVec(<<3, 4>>)],
      [roles |-> PyList(<<ml>>), experience_years |-> PyInt(0), timezone |-> IST,
       embedding |-> PyVec(<<0 - 3, 0 - 4>>)],
      [roles |-> PyList(<<Dev, ml>>), experience_years |-> PyInt(20), timezone |-> UTC,
       embedding |-> PyVec(<<4, 3>>)],
      [roles |-> None, experience_years |-> PyStr(<<"5">>), timezone |-> UTC,
       embedding |-> PyVec(<<3, 4>>)] }

\* The other fields of a target record.
ProjectTraits ==
    { [id |-> PyInt(1), required_roles |-> PyList(<<>>), min_experience |-> Missing,
       max_experience |-> Missing, timezone |-> None, embedding |-> None],
      [id |-> PyInt(12), required_roles |-> PyList(<<dev>>), min_experience |-> PyInt(3),
       max_experience |-> PyInt(5), timezone |-> UTC, embedding |-> PyVec(<<3, 4>>)],
      [id |-> PyInt(3), required_roles |-> PyList(<<dev>>), min_experience |-> PyInt(8),
       max_experience |-> PyInt(10), timezone |-> UTC, embedding |-> PyVec(<<3, 4>>)],
      [id |-> Missing, required_roles |-> PyList(<<dev, ml>>), min_experience |-> PyInt(0),
       max_experience |-> PyInt(10), timezone |-> IST, embedding |-> PyVec(<<0, 0>>)] }

\* The role lists of a direct call of calculate_role_match.
RoleLists == {None, PyList(<<>>), PyList(<<Dev>>), PyList(<<dev>>), PyList(<<ml>>),
              PyList(<<Dev, ml>>), PyList(<<dev, Dev>>), PyList(<<ml, dev>>)}

UserRecord(skills, t) ==
    [skills |-> skills, roles |-> t.roles, experience_years |-> t.experience_years,
     timezone |-> t.timezone, embedding |-> t.embedding]

\* A target as the match endpoints build it: the required skills under "skills".
ProjectRecord(skills, t) ==
    [id |-> t.id, skills |-> skills, required_skills |-> Missing,
     required_roles |-> t.required_roles, roles |-> Missing,
     min_experience |-> t.min_experience, max_experience |-> t.max_experience,
     timezone |-> t.timezone, embedding |-> t.embedding]

SkillOverlapArgs ==
    {[user_skills |-> u, required_skills |-> r] :
        u \in UserSkillRuns \cup {None}, r \in ReqSkillLists \cup {None}}

RoleMatchArgs == {[user_roles |-> u, required_roles |-> r] : u \in RoleLists, r \in RoleLists}

\* Ten skills of ten different keys, for a target that requires more skills
\* than the boost counts; the candidates scored against it have its first
\* 6, 7, 8 or all of its skills.
TenSkills == Spell(<<1, 3, 4, 5, 6, 7>>) \o << <<"d">>, <<"e">>, <<"s">>, <<"v">> >>

\* The pairs whose two embeddings are the filler: candidates without skills
\* and with three, targets that require nothing, one skill and three.
FillerArgs ==
    {[user_data |-> UserRecord(us, [ut EXCEPT !.embedding = PyVec(Filler.v)]),
      project_data |-> ProjectRecord(ps, [pt EXCEPT !.embedding = PyVec(Filler.v)])] :
        us \in {PyList(<<>>), PyList(Spell(<<1, 2, 3>>))},
        ut \in {t \in UserTraits : t.experience_years \in {PyInt(5), PyInt(0)}},
        ps \in {PyList(<<>>), PyList(Spell(<<1>>)), PyList(Spell(<<3, 4, 5>>))},
        pt \in ProjectTraits}

MatchArgs ==
    {[user_data |-> UserRecord(us, ut), project_data |-> ProjectRecord(ps, pt)] :
        us \in UserSkillPrefixes, ut \in UserTraits, ps \in ReqSkillLists, pt \in ProjectTraits}
    \cup {[user_data |-> UserRecord(us, ut),
           project_data |-> ProjectRecord(PyList(TenSkills), pt)] :
            us \in {PyList(SubSeq(TenSkills, 1, k)) : k \in {6, 7, 8, 10}},
            ut \in UserTraits, pt \in ProjectTraits}
    \cup FillerArgs

\* Years and bounds of a direct call of calculate_experience_fit: numbers,
\* with min above max too, and values that are no numbers.
ExperienceArgs ==
    {[user_exp |-> PyInt(y), required_exp_min |-> PyInt(lo), required_exp_max |-> PyInt(hi)] :
        y \in 0..MaxYears, lo \in 0..MaxExpBound, hi \in 0..MaxExpBound}
    \cup {[user_exp |-> y, required_exp_min |-> lo, required_exp_max |-> hi] :
            y \in {None, PyStr(<<"5">>), PyInt(5)}, lo \in {None, PyInt(3)},
            hi \in {None, PyInt(4)}}

\* The candidates of a call of rank_candidates.  Against the first target
\* the first two score 0.0 with no and with one shared skill, the third
\* scores above them, scoring the fourth raises, the fifth scores high.
RankCandidatePool ==
    LET traits(roles, exp, tz, emb) ==
            [roles |-> roles, experience_years |-> exp, timezone |-> tz, embedding |-> emb]
        far == traits(PyList(<<ml>>), PyInt(0), IST, PyVec(<<0 - 3, 0 - 4>>))
    IN  << UserRecord(PyList(<<>>), far),
           UserRecord(PyList(Spell(<<1>>)), far),
           UserRecord(PyList(Spell(<<1, 2, 3>>)), far),
           UserRecord(PyList(Spell(<<1>>)),
                      traits(None, PyStr(<<"5">>), UTC, PyVec(<<3, 4>>))),
           UserRecord(PyList(Spell(<<1, 3, 4, 5>>)),
                      traits(PyList(<<Dev>>), PyInt(8), UTC, PyVec(<<3, 4>>))) >>

\* The targets of a call of rank_candidates.
RankProjects ==
    { ProjectRecord(PyList(Spell(<<1, 3, 4>>)),
                    [id |-> PyInt(3), required_roles |-> PyList(<<dev>>),
                     min_experience |-> PyInt(8), max_experience |-> PyInt(10),
                     timezone |-> UTC, embedding |-> PyVec(<<3, 4>>)]),
      ProjectRecord(PyList(<<>>),
                    [id |-> PyInt(1), required_roles |-> PyList(<<>>),
                     min_experience |-> Missing, max_experience |-> Missing,
                     timezone |-> None, embedding |-> None]) }

\* Candidate lists of up to MaxCandidates entries, repetitions included.
CandidateLists ==
    UNION {[1..n -> Range(RankCandidatePool)] : n \in 0..MaxCandidates}

RankArgs ==
    {[candidates |-> c, project_data |-> p, top_k |-> k] :
        c \in CandidateLists, p \in RankProjects, k \in (0 - 1)..(MaxCandidates + 1)}

\* The strings of a direct call of normalize_skill: letters in both cases,
\* the characters it removes, and a tab.
SkillChars == {"p", "P", ".", " ", "-", "_", "\t"}

NormalizeArgs ==
    {[skill |-> x] : x \in UNION {[1..n -> SkillChars] : n \in 0..MaxSkillLen}}

\* The vectors of a direct call of EmbeddingEngine.cosine_similarity: None,
\* vectors of two entries, the zero vector among them, and one of three.
CosineArgs ==
    LET vectors == {None, PyVec(<<3, 4>>), PyVec(<<4, 3>>), PyVec(<<0 - 3, 0 - 4>>),
                    PyVec(<<0 - 4, 3>>), PyVec(<<1, 2>>), PyVec(<<0, 0>>),
                    PyVec(<<1, 0, 0>>)}
    IN  {[v1 |-> a, v2 |-> b] : a \in vectors, b \in vectors}

\* The arguments of the call are drawn; nothing has been called.
Init ==
    /\ fn = "none"
    /\ args \in SkillOverlapArgs \cup RoleMatchArgs \cup MatchArgs \cup ExperienceArgs
                    \cup RankArgs \cup NormalizeArgs \cup CosineArgs
    /\ ret = None
    /\ embedding_engine = None
    /\ ncalls = 0
    /\ NoCallers
    /\ NoApi

CallSkillOverlap ==
    /\ fn = "none"
    /\ DOMAIN args = {"user_skills", "required_skills"}
    /\ ret' = calculate_skill_overlap(args.user_skills, args.required_skills)
    /\ fn' = "calculate_skill_overlap"
    /\ UNCHANGED <<args, engineSide>>

CallRoleMatch ==
    /\ fn = "none"
    /\ DOMAIN args = {"user_roles", "required_roles"}
    /\ ret' = calculate_role_match(args.user_roles, args.required_roles)
    /\ fn' = "calculate_role_match"
    /\ UNCHANGED <<args, engineSide>>

CallMatchUserToProject ==
    /\ fn = "none"
    /\ DOMAIN args = {"user_data", "project_data"}
    /\ ret' = match_user_to_project(args.user_data, args.project_data)
    /\ fn' = "match_user_to_project"
    /\ UNCHANGED <<args, engineSide>>

CallExperienceFit ==
    /\ fn = "none"
    /\ DOMAIN args = {"user_exp", "required_exp_min", "required_exp_max"}
    /\ ret' = IF ExperienceRaises(args.user_exp, args.required_exp_min, args.required_exp_max)
              THEN [raised |-> "TypeError"]
              ELSE [raised |-> "no",
                    value |-> calculate_experience_fit(args.user_exp, args.required_exp_min,
                                                       args.required_exp_max)]
    /\ fn' = "calculate_experience_fit"
    /\ UNCHANGED <<args, engineSide>>

CallRankCandidates ==
    /\ fn = "none"
    /\ DOMAIN args = {"candidates", "project_data", "top_k"}
    /\ ret' = rank_candidates(args.candidates, args.project_data, args.top_k)
    /\ fn' = "rank_candidates"
    /\ UNCHANGED <<args, engineSide>>

CallNormalizeSkill ==
    /\ fn = "none"
    /\ DOMAIN args = {"skill"}
    /\ ret' = normalize_skill(args.skill)
    /\ fn' = "normalize_skill"
    /\ UNCHANGED <<args, engineSide>>

CallCosineSimilarity ==
    /\ fn = "none"
    /\ DOMAIN args = {"v1", "v2"}
    /\ ret' = cosine_similarity(args.v1, args.v2)
    /\ fn' = "cosine_similarity"
    /\ UNCHANGED <<args, engineSide>>

Next ==
    \/ CallSkillOverlap
    \/ CallRoleMatch
    \/ CallMatchUserToProject
    \/ CallExperienceFit
    \/ CallRankCandidates
    \/ CallNormalizeSkill
    \/ CallCosineSimilarity

Spec == Init /\ [][Next]_vars

(***************************************************************************)
(* SpecMatch: one call of match_user_to_project                            *)
(***************************************************************************)
\* The two records of the call are drawn; nothing has been called.
InitMatch ==
    /\ fn = "none"
    /\ args \in MatchArgs
    /\ ret = None
    /\ embedding_engine = None
    /\ ncalls = 0
    /\ NoCallers
    /\ NoApi

NextMatch == CallMatchUserToProject

SpecMatch == InitMatch /\ [][NextMatch]_vars

(***************************************************************************)
(* Properties of the scoring engine (checked under Spec)                   *)
(***************************************************************************)
IsSkillCall == fn = "calculate_skill_overlap"

IsRoleCall == fn = "calculate_role_match"

\* match_user_to_project was called and returned a Match.
MatchReturned == fn = "match_user_to_project" /\ ret.raised = "no"

\* The normalized keys of a skill list.
KeySet(skills) == {normalize_skill(s) : s \in Range(OrEmpty(skills))}

\* C1: every Match that match_user_to_project returns has a score in
\* [0.0, 1.0], also when the weighted sum plus the boost leaves that range.
C1_ScoreInUnitInterval ==
    MatchReturned => (0 <= ret.score /\ ret.score <= ScoreOne)

\* A Match was returned whose weighted sum plus boost exceeds 1.0.
C1_Witness ==
    /\ MatchReturned
    /\ BoostedScore(SubScores(args.user_data, args.project_data)) > ScoreOne

C9_SkillScore ==
    IsSkillCall =>
        /\ 0 <= ret.score /\ ret.score <= Unit
        /\ ~Falsy(args.required_skills) =>
              LET reqKeys  == KeySet(args.required_skills)
                  userKeys == KeySet(args.user_skills)
                  bonus5   == 5 * Cardinality(userKeys \ reqKeys)
              IN  \* 100 * score, with 100 * |req| as the common denominator
                  ret.score * 100 * Cardinality(reqKeys) =
                      Min2(Unit * (100 * Cardinality(reqKeys \cap userKeys)
                                   + Min2(bonus5, 20) * Cardinality(reqKeys)),
                           Unit * 100 * Cardinality(reqKeys))

\* The candidate has five skills the target does not ask for: the bonus is
\* capped.
C9_Witness ==
    /\ IsSkillCall /\ ~Falsy(args.required_skills)
    /\ Cardinality(KeySet(args.user_skills) \ KeySet(args.required_skills)) >= 5
    /\ ret.score < Unit

\* C10: a target with no required skills gets skill score 0.5 and empty
\* shared and complementary lists; a target with no required roles gets role
\* score 1.0 and no matched role; whatever the candidate has.
C10_NoRequirementDefaults ==
    /\ (IsSkillCall /\ Falsy(args.required_skills)) =>
          (2 * ret.score = Unit /\ ret.shared = <<>> /\ ret.complementary = <<>>)
    /\ (IsRoleCall /\ Falsy(args.required_roles)) =>
          (ret.score = Unit /\ ret.matched = {})

\* A candidate with roles was matched against a target that requires none.
C10_Witness ==
    IsRoleCall /\ Falsy(args.required_roles) /\ ~Falsy(args.user_roles)

(***************************************************************************)
(* Embedding engine (app/services/embedding_engine.py)                     *)
(*                                                                         *)
(* Terms.  TfidfVectorizer lower-cases a text, splits it into tokens of    *)
(* two or more word characters and drops the English stop words.  A text   *)
(* is modelled after that step, as the bag of its terms: a function from   *)
(* the terms that occur to their counts.  A term is a number, its rank in  *)
(* alphabetical order: the words the text builders write come first, in    *)
(* the order of HeaderTerms, the words of the records after them.          *)
(*                                                                         *)
(* Vectors.  The vectorizer is fit on one document, so every idf is 1 and  *)
(* a row is the l2-normalized vector of term counts.  A vector is a record *)
(* [v, norm2] standing for the floats v[i] / sqrt(norm2).                  *)
(*                                                                         *)
(* max_features (2000) is above every vocabulary of the model.             *)
(***************************************************************************)
DEFAULT_DIM == 384

\* The words the text builders write, in alphabetical order.
HeaderTerms ==
    <<"about", "description", "experience", "expert", "expertise", "junior",
      "level", "mid", "position", "proficient", "project", "required",
      "roles", "senior", "skills", "stack", "tech", "technical",
      "technologies", "years">>

Term(word) == CHOOSE i \in DOMAIN HeaderTerms : HeaderTerms[i] = word

\* The j-th word of the records.
DataTerm(j) == Len(HeaderTerms) + j

\* The largest term of the model.
MaxTerm == DataTerm(DEFAULT_DIM + 2)

EmptyText == <<>>

Count(text, t) == IF t \in DOMAIN text THEN text[t] ELSE 0

\* The terms of a list of words, each counted as often as it occurs.
BagOf(words) ==
    [t \in Range(words) |-> Cardinality({i \in DOMAIN words : words[i] = t})]

\* One occurrence of each of the given header words.
Header(words) == [t \in {Term(w) : w \in words} |-> 1]

\* Two texts joined.
Joined(a, b) == [t \in DOMAIN a \cup DOMAIN b |-> Count(a, t) + Count(b, t)]

\* A text written k times.
Times(k, text) == [t \in DOMAIN text |-> k * text[t]]

\* normalize_skills: the distinct entries of a list (a dict or anything else
\* does not occur in the model).
normalize_skills(skills) == Range(OrEmpty(skills))

\* The words of a field that holds a str, '' when the field is missing or None.
WordsOf(x) == IF IsStr(x) THEN x.str ELSE <<>>

ExperienceLevel(exp_years) ==
    IF exp_years <= 1 THEN Header({"junior", "level"})
    ELSE IF exp_years <= 3 THEN Joined(Header({"mid", "level"}), Header({"level"}))
    ELSE IF exp_years <= 7 THEN Header({"senior", "level"})
    ELSE Header({"expert", "level"})

\* create_profile_text: [raised, text].  The number of years is a single
\* digit in the model and so no token.  Comparing a str with 1 raises.
create_profile_text(profile_data) ==
    LET roles  == OrEmpty(Get(profile_data, "roles", None))
        skills == normalize_skills(Get(profile_data, "skills", None))
        exp    == Get(profile_data, "experience_years", PyInt(0))
        bio    == WordsOf(Get(profile_data, "bio", None))
        p1 == IF roles # <<>>
              THEN Joined(Header({"roles", "position"}), Times(2, BagOf(roles)))
              ELSE EmptyText
        p2 == IF skills # {}
              THEN Joined(Header({"technical", "skills", "expertise", "proficient"}),
                          Times(3, [t \in skills |-> 1]))
              ELSE EmptyText
        p3 == IF exp = None THEN EmptyText
              ELSE Joined(Header({"experience", "years"}), ExperienceLevel(exp.int))
        p4 == IF bio # <<>> THEN Joined(Header({"about"}), BagOf(bio)) ELSE EmptyText
    IN  IF exp # None /\ ~IsInt(exp)
        THEN [raised |-> "TypeError", text |-> EmptyText]
        ELSE [raised |-> "no", text |-> Joined(Joined(p1, p2), Joined(p3, p4))]

\* create_project_text: [raised, text], for a record with the fields the
\* project routes pass (title, description, required_skills).
create_project_text(project_data) ==
    LET title  == WordsOf(Get(project_data, "title", None))
        desc   == WordsOf(Get(project_data, "description", None))
        skills == normalize_skills(Get(project_data, "required_skills", None))
        p1 == IF title # <<>> THEN Joined(Header({"project"}), BagOf(title)) ELSE EmptyText
        p2 == IF desc # <<>> THEN Joined(Header({"description"}), BagOf(desc)) ELSE EmptyText
        p3 == IF skills # {}
              THEN Joined(Header({"required", "skills", "tech", "stack", "technologies"}),
                          Times(3, [t \in skills |-> 1]))
              ELSE EmptyText
    IN  [raised |-> "no", text |-> Joined(Joined(p1, p2), p3)]

\* EmbeddingEngine(): the vectorizer has no vocabulary yet.
NewEngine == [fitted |-> FALSE, corpus |-> <<>>, vocabulary |-> <<>>]

AllTerms == [i \in 1..MaxTerm |-> i]

\* TfidfVectorizer.fit([text]): the terms of the text in alphabetical order,
\* one column each.  A text without terms raises ValueError (empty vocabulary).
FitRaises(text) == DOMAIN text = {}

Vocabulary(text) == SelectSeq(AllTerms, LAMBDA t : t \in DOMAIN text)

\* The sum of v[i] * v[i] for i in lo..hi, by halves.
RECURSIVE SumSquares(_, _, _)
SumSquares(v, lo, hi) ==
    IF lo > hi THEN 0
    ELSE IF lo = hi THEN v[lo] * v[lo]
    ELSE LET mid == (lo + hi) \div 2
         IN  SumSquares(v, lo, mid) + SumSquares(v, mid + 1, hi)

\* TfidfVectorizer.transform([text]).toarray()[0]: the counts of the
\* vocabulary's terms, l2-normalized; a row of zeros stays as it is.
Transform(vocabulary, text) ==
    LET counts == [i \in 1..Len(vocabulary) |-> Count(text, vocabulary[i])]
        n2     == SumSquares(counts, 1, Len(vocabulary))
    IN  [v |-> counts, norm2 |-> IF n2 = 0 THEN 1 ELSE n2]

\* _encode_text without lines 152-157: the row as the vectorizer gives it.
Unresized(vec, dim) == vec

\* Lines 152-157 of _encode_text: zero-padded on the right up to dim columns,
\* or cut to the first dim columns.
Resized(vec, dim) ==
    IF Len(vec.v) < dim
    THEN [v |-> [i \in 1..dim |-> IF i <= Len(vec.v) THEN vec.v[i] ELSE 0],
          norm2 |-> vec.norm2]
    ELSE [v |-> SubSeq(vec.v, 1, dim), norm2 |-> vec.norm2]

\* _ensure_fitted([text]) on an engine: the engine after the call and whether
\* the fit raised.  _corpus is assigned before the fit, _fitted after it.
ensure_fitted(engine, text) ==
    IF engine.fitted THEN [engine |-> engine, raised |-> "no"]
    ELSE IF FitRaises(text)
         THEN [engine |-> [engine EXCEPT !.corpus = <<text>>], raised |-> "ValueError"]
         ELSE [engine |-> [fitted |-> TRUE, corpus |-> <<text>>,
                           vocabulary |-> Vocabulary(text)],
               raised |-> "no"]

\* _encode_text(text): [engine, raised, value].
encode_text(engine, text) ==
    LET f == ensure_fitted(engine, text)
    IN  IF f.raised # "no"
        THEN [engine |-> f.engine, raised |-> f.raised, value |-> None]
        ELSE [engine |-> f.engine, raised |-> "no",
              value |-> Resized(Transform(f.engine.vocabulary, text), DEFAULT_DIM)]

\* embed_profile / embed_project, chosen as ensure_embedding chooses.
embed(engine, data_dict, kind) ==
    LET t == IF kind = "profile" THEN create_profile_text(data_dict)
             ELSE create_project_text(data_dict)
    IN  IF t.raised # "no"
        THEN [engine |-> engine, raised |-> t.raised, value |-> None]
        ELSE encode_text(engine, t.text)

(***************************************************************************)
(* MatchingEngineWrapper (app/services/matching_engine.py)                 *)
(***************************************************************************)
\* ensure_embedding with the try/except taken away.
ensure_embedding_unguarded(engine, data_dict, kind) ==
    IF engine = None
    THEN [engine |-> engine, raised |-> "no", value |-> Filler]
    ELSE embed(engine, data_dict, kind)

\* ensure_embedding(data_dict, kind): [engine, raised, value], engine being
\* the wrapper's engine after the call.
ensure_embedding(engine, data_dict, kind) ==
    IF engine = None
    THEN [engine |-> engine, raised |-> "no", value |-> Filler]
    ELSE LET e == embed(engine, data_dict, kind)
         IN  IF e.raised # "no"
             THEN [engine |-> e.engine, raised |-> "no", value |-> Filler]
             ELSE e

(***************************************************************************)
(* SpecFacade: calls of ensure_embedding and of the engine's embed methods *)
(* on one wrapper, one after the other                                     *)
(***************************************************************************)
\* Calls made on the wrapper in one behaviour.
MaxCalls == 2

\* The first n words of the records.
Words(n) == [j \in 1..n |-> DataTerm(j)]

\* A record with the fields the text builders read, and its embedding.
Record(roles, skills, exp, bio, title, description, required_skills, embedding) ==
    [roles |-> roles, skills |-> skills, experience_years |-> exp, bio |-> bio,
     title |-> title, description |-> description,
     required_skills |-> required_skills, embedding |-> embedding]

\* Candidate records.  The first is the profile the match routes build: it
\* carries the filler as its embedding when ensure_embedding is called.
ProfileRecords ==
    { Record(PyList(<<>>), PyList(Words(2)), PyInt(0),
             PyStr(<<DataTerm(3), Term("skills")>>), Missing, Missing, Missing, Filler),
      Record(PyList(<<DataTerm(4), DataTerm(4)>>), PyList(<<DataTerm(1)>>), PyInt(5),
             Missing, Missing, Missing, Missing, Missing),
      Record(None, None, PyStr(<<"5">>), Missing, Missing, Missing, Missing, None),
      Record(Missing, Missing, None, Missing, Missing, Missing, Missing, Missing) }

\* Project records: the empty dict, a small project, and projects whose text
\* has exactly DEFAULT_DIM terms and two more (five of them header words).
ProjectRecords ==
    { Record(Missing, Missing, Missing, Missing, Missing, Missing, Missing, Missing),
      Record(Missing, Missing, Missing, Missing, PyStr(<<DataTerm(1), DataTerm(5)>>),
             PyStr(<<DataTerm(2)>>), PyList(<<DataTerm(1)>>), Missing),
      Record(Missing, Missing, Missing, Missing, Missing, Missing,
             PyList(Words(DEFAULT_DIM - 5)), Missing),
      Record(Missing, Missing, Missing, Missing, Missing, Missing,
             PyList(Words(DEFAULT_DIM - 3)), Filler) }

Kinds == {"profile", "project"}

\* The wrapper is constructed: its engine is there, or loading it failed.
InitFacade ==
    /\ fn = "none"
    /\ args = None
    /\ ret = None
    /\ embedding_engine \in {NewEngine, None}
    /\ ncalls = 0
    /\ NoCallers
    /\ NoApi

\* wrapper.ensure_embedding(data_dict, kind)
CallEnsureEmbedding ==
    /\ ncalls < MaxCalls
    /\ \E data_dict \in ProfileRecords \cup ProjectRecords, kind \in Kinds :
          LET r == ensure_embedding(embedding_engine, data_dict, kind)
          IN  /\ fn' = "ensure_embedding"
              /\ args' = [self |-> embedding_engine, data_dict |-> data_dict, kind |-> kind]
              /\ ret' = [raised |-> r.raised, value |-> r.value]
              /\ embedding_engine' = r.engine
    /\ ncalls' = ncalls + 1
    /\ UNCHANGED threadSide

\* wrapper.embedding_engine.embed_profile(data_dict) / embed_project(data_dict)
CallEmbed ==
    /\ ncalls < MaxCalls
    /\ embedding_engine # None
    /\ \E data_dict \in ProfileRecords \cup ProjectRecords, kind \in Kinds :
          LET r == embed(embedding_engine, data_dict, kind)
          IN  /\ fn' = "embed"
              /\ args' = [self |-> embedding_engine, data_dict |-> data_dict, kind |-> kind]
              /\ ret' = [raised |-> r.raised, value |-> r.value]
              /\ embedding_engine' = r.engine
    /\ ncalls' = ncalls + 1
    /\ UNCHANGED threadSide

NextFacade ==
    \/ CallEnsureEmbedding
    \/ CallEmbed

SpecFacade == InitFacade /\ [][NextFacade]_vars

(***************************************************************************)
(* Properties of the wrapper and of embed (checked under SpecFacade)       *)
(***************************************************************************)
EnsureEmbeddingCalled == fn = "ensure_embedding"

EmbedReturned == fn = "embed" /\ ret.raised = "no"

\* The text the call's record was turned into.
TextOfCall ==
    IF args.kind = "profile" THEN create_profile_text(args.data_dict).text
    ELSE create_project_text(args.data_dict).text

\* C5: ensure_embedding called on a record that already carries an embedding
\* returns that embedding unchanged and computes nothing (the engine is left
\* as it was).
C5_ExistingEmbeddingReturned ==
    (EnsureEmbeddingCalled /\ args.data_dict.embedding \notin {Missing, None}) =>
        /\ ret.value = args.data_dict.embedding
        /\ embedding_engine = args.self

\* C6: ensure_embedding never raises; when the wrapper has no engine or
\* embedding the record raises, it returns the filler; whatever happens the
\* returned vector has 384 entries.
C6_NeverRaisesFillerOnFailure ==
    EnsureEmbeddingCalled =>
        /\ ret.raised = "no"
        /\ Len(ret.value.v) = 384
        /\ (args.self = None \/ embed(args.self, args.data_dict, args.kind).raised # "no")
              => ret.value = Filler

\* The wrapper has an engine and embedding the record raised.
C6_Witness ==
    /\ EnsureEmbeddingCalled
    /\ args.self # None
    /\ embed(args.self, args.data_dict, args.kind).raised # "no"
    /\ ret.value = Filler

\* C7: a vector returned by embed has DEFAULT_DIM entries; when the
\* vectorizer's row is narrower, the row is its prefix and the rest is
\* zeros; otherwise it is the first DEFAULT_DIM entries of the row.
C7_EmbedLength ==
    EmbedReturned =>
        LET raw == Transform(embedding_engine.vocabulary, TextOfCall).v
            out == ret.value.v
        IN  /\ Len(out) = DEFAULT_DIM
            /\ Len(raw) < DEFAULT_DIM =>
                  /\ \A i \in 1..Len(raw) : out[i] = raw[i]
                  /\ \A i \in (Len(raw) + 1)..DEFAULT_DIM : out[i] = 0
            /\ Len(raw) >= DEFAULT_DIM => out = SubSeq(raw, 1, DEFAULT_DIM)

\* The vocabulary is wider than DEFAULT_DIM and the text has a term in a
\* column that is cut off.
C7_Witness ==
    /\ EmbedReturned
    /\ Len(embedding_engine.vocabulary) > DEFAULT_DIM
    /\ \E i \in (DEFAULT_DIM + 1)..Len(embedding_engine.vocabulary) :
          Count(TextOfCall, embedding_engine.vocabulary[i]) > 0

(***************************************************************************)
(* SpecEngine: concurrent callers of _encode_text on one EmbeddingEngine.  *)
(* The class takes no lock; a caller is at a line of lines 147-157 and     *)
(* 141-145, and one step runs one line.  vectorizer.fit and                *)
(* vectorizer.transform are taken as single steps.                         *)
(***************************************************************************)
NumCallers == 2

Callers == 1..NumCallers

\* The texts the callers embed: two profile texts and the empty text.
EngineTexts ==
    {create_profile_text(r).text : r \in {p \in ProfileRecords : IsInt(p.experience_years)}}
        \cup {EmptyText}

\* What a step of a caller leaves alone.
callSide == <<fn, args, ret, ncalls, apiSide>>

Idle == [pc |-> "idle", text |-> EmptyText, vec |-> None, begunFitted |-> FALSE]

At(c, line) == callers[c].pc = line

Goto(c, line) == callers' = [callers EXCEPT ![c].pc = line]

InitEngine ==
    /\ fn = "none"
    /\ args = None
    /\ ret = None
    /\ ncalls = 0
    /\ embedding_engine = NewEngine
    /\ callers = [c \in Callers |-> Idle]
    /\ fits = 0
    /\ embedded = {}
    /\ NoApi

\* A caller enters _encode_text(text).
Enter(c) ==
    /\ At(c, "idle")
    /\ \E text \in EngineTexts :
          callers' = [callers EXCEPT ![c] =
                         [pc |-> "148", text |-> text, vec |-> None,
                          begunFitted |-> embedding_engine.fitted]]
    /\ UNCHANGED <<embedding_engine, fits, embedded, callSide>>

\* Line 148: if not self._fitted
Line148(c) ==
    /\ At(c, "148")
    /\ Goto(c, IF embedding_engine.fitted THEN "151" ELSE "142")
    /\ UNCHANGED <<embedding_engine, fits, embedded, callSide>>

\* Line 142: if not self._fitted
Line142(c) ==
    /\ At(c, "142")
    /\ Goto(c, IF embedding_engine.fitted THEN "151" ELSE "143")
    /\ UNCHANGED <<embedding_engine, fits, embedded, callSide>>

\* Line 143: self._corpus = texts
Line143(c) ==
    /\ At(c, "143")
    /\ embedding_engine' = [embedding_engine EXCEPT !.corpus = <<callers[c].text>>]
    /\ Goto(c, "144")
    /\ UNCHANGED <<fits, embedded, callSide>>

\* Line 144: self.vectorizer.fit(texts); a ValueError ends the call.
Line144(c) ==
    /\ At(c, "144")
    /\ IF FitRaises(callers[c].text)
       THEN /\ callers' = [callers EXCEPT ![c] = Idle]
            /\ UNCHANGED <<embedding_engine, fits>>
       ELSE /\ embedding_engine' =
                   [embedding_engine EXCEPT !.vocabulary = Vocabulary(callers[c].text)]
            /\ fits' = fits + 1
            /\ Goto(c, "145")
    /\ UNCHANGED <<embedded, callSide>>

\* Line 145: self._fitted = True
Line145(c) ==
    /\ At(c, "145")
    /\ embedding_engine' = [embedding_engine EXCEPT !.fitted = TRUE]
    /\ Goto(c, "151")
    /\ UNCHANGED <<fits, embedded, callSide>>

\* Line 151: vec = self.vectorizer.transform([text]).toarray()
Line151(c) ==
    /\ At(c, "151")
    /\ callers' = [callers EXCEPT ![c].pc = "152",
                                  ![c].vec = Transform(embedding_engine.vocabulary,
                                                       callers[c].text)]
    /\ UNCHANGED <<embedding_engine, fits, embedded, callSide>>

\* Lines 152-157: the caller returns the resized row.
Line152(c) ==
    /\ At(c, "152")
    /\ embedded' =
          IF callers[c].begunFitted
          THEN embedded \cup {[text |-> callers[c].text,
                               value |-> Resized(callers[c].vec, DEFAULT_DIM)]}
          ELSE embedded
    /\ callers' = [callers EXCEPT ![c] = Idle]
    /\ UNCHANGED <<embedding_engine, fits, callSide>>

NextEngine ==
    \/ \E c \in Callers : Enter(c)
    \/ \E c \in Callers : Line148(c)
    \/ \E c \in Callers : Line142(c)
    \/ \E c \in Callers : Line143(c)
    \/ \E c \in Callers : Line144(c)
    \/ \E c \in Callers : Line145(c)
    \/ \E c \in Callers : Line151(c)
    \/ \E c \in Callers : Line152(c)

SpecEngine == InitEngine /\ [][NextEngine]_vars

(***************************************************************************)
(* SpecApi: the process behind the routes of app/api/routes/match.py and   *)
(* projects.py.  An engine is known by its place in engines.  A request    *)
(* is served in one step; the match routes are coroutines that do not      *)
(* yield between get_matcher() and their response, and the engines of the  *)
(* project routes are local to one request.                                *)
(***************************************************************************)
\* Requests served in one behaviour.
MaxRequests == 3

\* current_user.id
UserIds == {1, 2}

\* What a request leaves alone.
facadeSide == <<embedding_engine, ncalls, callers, fits, embedded>>

\* MatchingEngineWrapper(): [engines, scorers, wrapper] after the constructor.
\* When EmbeddingEngine() was built the wrapper holds it and a MatchingEngine;
\* when it raised, the wrapper's embedding_engine and matcher are both None
\* (place 0).
NewWrapper(engs, scs, built) ==
    IF built
    THEN [engines |-> Append(engs, NewEngine), scorers |-> scs + 1,
          wrapper |-> [embedding_engine |-> Len(engs) + 1]]
    ELSE [engines |-> engs, scorers |-> scs, wrapper |-> [embedding_engine |-> 0]]

\* get_matcher(): the wrapper of match.py, constructed by the first call.
get_matcher(built) ==
    IF _matcher = None THEN NewWrapper(engines, scorers, built)
    ELSE [engines |-> engines, scorers |-> scorers, wrapper |-> _matcher]

\* The import of the route modules: projects.py constructs its wrapper.
InitApi ==
    /\ fn = "none"
    /\ args = None
    /\ ret = None
    /\ embedding_engine = None
    /\ ncalls = 0
    /\ NoCallers
    /\ \E built \in BOOLEAN :
          /\ engines = NewWrapper(<<>>, 0, built).engines
          /\ scorers = NewWrapper(<<>>, 0, built).scorers
          /\ matcher = NewWrapper(<<>>, 0, built).wrapper
    /\ _matcher = None
    /\ projects = <<>>
    /\ matches_table = <<>>
    /\ produced = {}
    /\ nrequests = 0

\* What an embedding computed by engine number e adds to the history.
Produced(e, result) ==
    IF result.raised = "no"
    THEN produced \cup {[engine |-> e, vocabulary |-> result.engine.vocabulary]}
    ELSE produced

\* Lines 69-88 and 260-277 of match.py: the profile is built with the filler
\* as its embedding, then ensure_embedding's vector is put in its place:
\* [engines, produced, value].
EmbedProfile(g, user_profile) ==
    LET e == g.wrapper.embedding_engine
    IN  IF e = 0
        THEN [engines |-> g.engines, produced |-> produced,
              value |-> ensure_embedding(None, user_profile, "profile").value]
        ELSE The({[engines |-> [g.engines EXCEPT ![e] = r.engine],
                   produced |-> Produced(e, computed),
                   value |-> r.value] :
                  r \in {ensure_embedding(g.engines[e], user_profile, "profile")},
                  computed \in {embed(g.engines[e], user_profile, "profile")}})

\* The query parameter top_k: a short list and the default.
TopKs == {1, 10}

\* The top_k of a request of a match route: either one when its profile has
\* skills, the default otherwise.
TopKOf(skills) == IF skills = <<>> THEN {10} ELSE TopKs

\* The projects the user has a row for in the matches table.
swiped_project_ids(user) ==
    {matches_table[i].project_id :
        i \in {j \in DOMAIN matches_table : matches_table[j].user_id = user}}

\* The fetch without its two filters.
AllProjects(user) == projects

\* The rows the match routes fetch: projects of other owners, without the
\* swiped ones.
NewProjects(user) ==
    SelectSeq(projects,
              LAMBDA p : p.owner_id # user /\ p.id \notin swiped_project_ids(user))

\* The skill or role a word of the records spells.
Spelled(t) == SkillPool[t - Len(HeaderTerms)]

\* [str(s).strip().lower() for s in words]
Lowered(words) == [i \in DOMAIN words |-> Lower(Strip(Spelled(words[i])))]

\* An embedding as the list the scoring reads: a row's embedding that is not
\* a list is replaced by the filler.
AsList(embedding) ==
    IF embedding = None THEN PyVec(Filler.v) ELSE PyVec(embedding.v)

\* The user_profile dict as the scoring reads it.
ScoringProfile(roles, skills, years, embedding) ==
    [skills |-> PyList(Lowered(skills)), roles |-> PyList(Lowered(roles)),
     experience_years |-> PyInt(years), timezone |-> None,
     embedding |-> AsList(embedding)]

\* The candidate dict of a project row; match_from_profile's has no roles.
Candidate(p, roles) ==
    [id |-> PyInt(p.id), skills |-> PyList(Lowered(p.required_skills.list)),
     required_skills |-> Missing, required_roles |-> Missing, roles |-> roles,
     min_experience |-> Missing, max_experience |-> Missing, timezone |-> Missing,
     embedding |-> AsList(p.embedding)]

\* The candidate dicts of the fetched rows, in order.
RECURSIVE CandidatesUpTo(_, _, _)
CandidatesUpTo(rows, upload_route, n) ==
    IF n = 0 THEN <<>>
    ELSE Append(CandidatesUpTo(rows, upload_route, n - 1),
                Candidate(rows[n], IF upload_route THEN PyList(<<>>) ELSE Missing))

Candidates(rows, upload_route) == CandidatesUpTo(rows, upload_route, Len(rows))

\* The Match or the exception of every candidate, in order.
RECURSIVE PairResults(_, _, _)
PairResults(user_profile, candidates, n) ==
    IF n = 0 THEN <<>>
    ELSE Append(PairResults(user_profile, candidates, n - 1),
                match_user_to_project(user_profile, candidates[n]))

\* The scoring loop of a match route: matcher.matcher is None on a wrapper
\* without engine, and the first pair that raises ends the loop.
ScoringLoop(wrapper, user_profile, candidates) ==
    IF wrapper.embedding_engine = 0 THEN [raised |-> "AttributeError"]
    ELSE The({IF \E i \in DOMAIN ms : ms[i].raised # "no"
              THEN [raised |-> "TypeError"]
              ELSE [raised |-> "no", matches_list |-> ms] :
              ms \in {PairResults(user_profile, candidates, Len(candidates))}})

\* int(s) of a string of digits.
RECURSIVE IntOfDigits(_)
IntOfDigits(s) ==
    IF s = <<>> THEN 0
    ELSE 10 * IntOfDigits(SubSeq(s, 1, Len(s) - 1))
         + (CHOOSE d \in 0..9 : DecimalStr(d) = <<s[Len(s)]>>)

\* str.isdigit()
IsDigits(s) ==
    s # <<>> /\ \A i \in DOMAIN s : \E d \in 0..9 : DecimalStr(d) = <<s[i]>>

\* Lines 186-190: a target_id made of digits becomes an int.
AsProjectId(target_id) ==
    IF IsStr(target_id) /\ IsDigits(target_id.str) THEN PyInt(IntOfDigits(target_id.str))
    ELSE target_id

\* The response entries of the ranked matches whose project_id is a key of
\* project_map (an int).
RECURSIVE FinalMatches(_, _, _)
FinalMatches(ranked, rows, convert) ==
    IF ranked = <<>> THEN <<>>
    ELSE LET m == Head(ranked)
             project_id == IF convert THEN AsProjectId(m.target_id) ELSE m.target_id
             known == /\ IsInt(project_id)
                      /\ project_id.int # 0
                      /\ \E i \in DOMAIN rows : rows[i].id = project_id.int
         IN  (IF known
              THEN <<[project_id |-> project_id.int, score |-> m.score,
                      shared_skills |-> m.shared_skills]>>
              ELSE <<>>)
             \o FinalMatches(Tail(ranked), rows, convert)

\* m put into a list sorted by descending score, behind the entries whose
\* score is not below its own.
RECURSIVE InsertByScore(_, _)
InsertByScore(m, sorted) ==
    IF sorted = <<>> THEN <<m>>
    ELSE IF Head(sorted).score >= m.score
         THEN <<Head(sorted)>> \o InsertByScore(m, Tail(sorted))
         ELSE <<m>> \o sorted

\* matches_list.sort(key=lambda m: m.score, reverse=True)
RECURSIVE SortedByScore(_)
SortedByScore(ms) ==
    IF ms = <<>> THEN <<>>
    ELSE InsertByScore(ms[Len(ms)], SortedByScore(SubSeq(ms, 1, Len(ms) - 1)))

\* What a match route answers once the profile is embedded: the status and
\* the matches, with the ids of the candidates it scored.
MatchResponse(rows, scored, ranked, convert) ==
    IF rows = <<>>
    THEN [status |-> 200, candidates |-> <<>>, matches |-> <<>>]
    ELSE IF scored.raised # "no"
    THEN [status |-> 500, candidates |-> [i \in DOMAIN rows |-> rows[i].id],
          matches |-> <<>>]
    ELSE [status |-> 200, candidates |-> [i \in DOMAIN rows |-> rows[i].id],
          matches |-> FinalMatches(ranked, rows, convert)]

\* The outcomes of EmbeddingEngine() where a request constructs one.
Built(constructs) == IF constructs THEN BOOLEAN ELSE {TRUE}

\* The skills of a profile payload.
ProfileSkills == {<<>>, Words(2)}

\* What the resume parser makes of an upload: nothing (the file is empty or
\* cannot be parsed), or roles, skills and years.
Uploads ==
    { [problem |-> 400, roles |-> <<>>, skills |-> <<>>, experience_years |-> 0],
      [problem |-> 0, roles |-> <<DataTerm(4)>>, skills |-> Words(2),
       experience_years |-> 5] }

\* The body of a match route from the profile on: the embedding, the fetch
\* of the rows, the scoring loop, the sort and the response.  The upload
\* route sorts by score and shared skills and turns a target_id of digits
\* into an int; the profile route sorts by score and gives its candidates no
\* roles.  [engines, produced, ret].
MatchOutcome(g, user, top_k, roles, skills, years, bio, upload_route) ==
    The({The({The({[engines |-> emb.engines, produced |-> emb.produced,
                    ret |-> MatchResponse(
                               rows, scored,
                               Slice(IF upload_route
                                     THEN SortedDescending(scored.matches_list)
                                     ELSE SortedByScore(scored.matches_list),
                                     top_k),
                               upload_route)] :
                   scored \in {ScoringLoop(g.wrapper, profile, candidates)}}) :
              profile \in {ScoringProfile(roles, skills, years, emb.value)},
              candidates \in {Candidates(rows, upload_route)}}) :
         emb \in {EmbedProfile(g, Record(PyList(roles), PyList(skills), PyInt(years),
                                         PyStr(<<bio, Term("skills")>>),
                                         Missing, Missing, Missing, Filler))},
         rows \in {NewProjects(user)}})

\* POST /match/upload_and_match
upload_and_match_resume ==
    /\ nrequests < MaxRequests
    /\ \E upload \in Uploads, user \in UserIds, built \in Built(_matcher = None) :
       \E top_k \in TopKOf(upload.skills) :
       \E g \in {get_matcher(built)} :
       \E out \in {IF upload.problem # 0
                    THEN [engines |-> g.engines, produced |-> produced,
                          ret |-> [status |-> upload.problem, candidates |-> <<>>,
                                   matches |-> <<>>]]
                    ELSE MatchOutcome(g, user, top_k,
                                      IF upload.roles = <<>> THEN <<DataTerm(6)>>
                                      ELSE upload.roles,
                                      upload.skills, upload.experience_years,
                                      DataTerm(7), TRUE)} :
          /\ fn' = "upload_and_match_resume"
          /\ args' = [user |-> user, top_k |-> top_k]
          /\ scorers' = g.scorers
          /\ _matcher' = g.wrapper
          /\ engines' = out.engines
          /\ produced' = out.produced
          /\ ret' = out.ret
    /\ nrequests' = nrequests + 1
    /\ UNCHANGED <<matcher, projects, matches_table, facadeSide>>

\* POST /match/match_from_profile
match_from_profile ==
    /\ nrequests < MaxRequests
    /\ \E skills \in ProfileSkills, user \in UserIds, built \in Built(_matcher = None) :
       \E top_k \in TopKOf(skills) :
       \E g \in {get_matcher(built)} :
       \E out \in {MatchOutcome(g, user, top_k, <<>>, skills, 0, DataTerm(3), FALSE)} :
          /\ fn' = "match_from_profile"
          /\ args' = [user |-> user, top_k |-> top_k]
          /\ scorers' = g.scorers
          /\ _matcher' = g.wrapper
          /\ engines' = out.engines
          /\ produced' = out.produced
          /\ ret' = out.ret
    /\ nrequests' = nrequests + 1
    /\ UNCHANGED <<matcher, projects, matches_table, facadeSide>>

\* ProjectCreate payloads: title, description, required_skills.
ProjectCreates ==
    { [title |-> PyStr(<<DataTerm(1), DataTerm(5)>>), description |-> PyStr(<<DataTerm(2)>>),
       required_skills |-> PyList(<<DataTerm(1)>>)],
      [title |-> PyStr(<<>>), description |-> None, required_skills |-> PyList(<<>>)] }

\* ProjectUpdate payloads: every field may be None.
ProjectUpdates ==
    { [title |-> None, description |-> None, required_skills |-> None, timezone |-> None],
      [title |-> None, description |-> None, required_skills |-> None, timezone |-> UTC],
      [title |-> None, description |-> None, required_skills |-> PyList(<<DataTerm(2)>>),
       timezone |-> None] }

\* The dict a project route passes to embed_project.
ProjectDict(title, description, required_skills) ==
    Record(Missing, Missing, Missing, Missing, title, description,
           PyList(OrEmpty(required_skills)), Missing)

\* SELECT ... WHERE id = :project_id: the row's place, 0 when there is none.
RowOf(project_id) ==
    IF \E i \in DOMAIN projects : projects[i].id = project_id
    THEN CHOOSE i \in DOMAIN projects : projects[i].id = project_id
    ELSE 0

\* POST /projects: a new engine embeds the project; the row is inserted with
\* the embedding, or with None when the embedding raised.  EmbeddingEngine()
\* is called outside the try: when it raises, so does the request.
create_project ==
    /\ nrequests < MaxRequests
    /\ \E payload \in ProjectCreates, user \in UserIds, built \in BOOLEAN :
       \E r \in {embed(NewEngine,
                       ProjectDict(payload.title, payload.description,
                                   payload.required_skills),
                       "project")} :
          LET e   == Len(engines) + 1
              row == [id |-> Len(projects) + 1, owner_id |-> user,
                      title |-> payload.title, description |-> payload.description,
                      required_skills |-> PyList(OrEmpty(payload.required_skills)),
                      timezone |-> None,
                      embedding |-> IF r.raised = "no" THEN r.value ELSE None]
          IN  /\ fn' = "create_project"
              /\ args' = [user |-> user]
              /\ IF built
                 THEN /\ engines' = Append(engines, r.engine)
                      /\ produced' = Produced(e, r)
                      /\ projects' = Append(projects, row)
                      /\ ret' = [status |-> 201, id |-> row.id]
                 ELSE /\ ret' = [status |-> 500]
                      /\ UNCHANGED <<engines, produced, projects>>
    /\ nrequests' = nrequests + 1
    /\ UNCHANGED <<scorers, matcher, _matcher, matches_table, facadeSide>>

\* The row after the UPDATE: the columns the payload names, and the
\* embedding when one was computed.
Updated(row, payload, embedding) ==
    [id |-> row.id, owner_id |-> row.owner_id,
     title |-> IF payload.title # None THEN payload.title ELSE row.title,
     description |-> IF payload.description # None THEN payload.description
                     ELSE row.description,
     required_skills |-> IF payload.required_skills # None THEN payload.required_skills
                         ELSE row.required_skills,
     timezone |-> IF payload.timezone # None THEN payload.timezone ELSE row.timezone,
     embedding |-> IF embedding # None THEN embedding ELSE row.embedding]

\* PUT /projects/{project_id}
update_project ==
    /\ nrequests < MaxRequests
    /\ \E project_id \in 1..(Len(projects) + 1), payload \in ProjectUpdates, user \in UserIds :
       \E built \in Built(~Falsy(payload.title) \/ ~Falsy(payload.description)
                          \/ ~Falsy(payload.required_skills)) :
          LET i == RowOf(project_id)
              nothing == /\ payload.title = None /\ payload.description = None
                         /\ payload.required_skills = None /\ payload.timezone = None
              regenerate == \/ ~Falsy(payload.title) \/ ~Falsy(payload.description)
                            \/ ~Falsy(payload.required_skills)
              e == Len(engines) + 1
          IN  /\ fn' = "update_project"
              /\ args' = [project_id |-> project_id, user |-> user]
              /\ IF i = 0 \/ projects[i].owner_id # user \/ nothing
                 THEN /\ ret' = [status |-> IF i = 0 THEN 404
                                            ELSE IF projects[i].owner_id # user THEN 403
                                            ELSE 400]
                      /\ UNCHANGED <<engines, produced, projects>>
                 ELSE /\ ret' = [status |-> 200]
                      /\ IF regenerate /\ built
                         THEN \E r \in {embed(NewEngine,
                                                 ProjectDict(Or(payload.title, PyStr(<<>>)),
                                                             Or(payload.description,
                                                                PyStr(<<>>)),
                                                             payload.required_skills),
                                                 "project")} :
                              /\ engines' = Append(engines, r.engine)
                              /\ produced' = Produced(e, r)
                              /\ projects' =
                                    [projects EXCEPT ![i] =
                                        Updated(projects[i], payload,
                                                IF r.raised = "no" THEN r.value ELSE None)]
                         ELSE /\ projects' =
                                    [projects EXCEPT ![i] = Updated(projects[i], payload, None)]
                              /\ UNCHANGED <<engines, produced>>
    /\ nrequests' = nrequests + 1
    /\ UNCHANGED <<scorers, matcher, _matcher, matches_table, facadeSide>>

\* GET /projects/{project_id}/matches: the wrapper of projects.py has no
\* rank_candidates, so a project with an embedding ends in AttributeError.
get_project_matches ==
    /\ nrequests < MaxRequests
    /\ \E project_id \in 1..(Len(projects) + 1), user \in UserIds :
          LET i == RowOf(project_id)
          IN  /\ fn' = "get_project_matches"
              /\ args' = [project_id |-> project_id, user |-> user]
              /\ ret' = [status |-> IF i = 0 THEN 404
                                    ELSE IF projects[i].owner_id # user THEN 403
                                    ELSE IF projects[i].embedding = None THEN 400
                                    ELSE 500]
    /\ nrequests' = nrequests + 1
    /\ UNCHANGED <<engines, scorers, matcher, _matcher, projects, matches_table, produced,
                   facadeSide>>

\* ActionRequest.action as sent.
Actions == {"match", "PASS", "skip"}

\* action_req.action.lower()
ActionLower(action) == IF action = "PASS" THEN "pass" ELSE action

\* UPDATE matches SET action = :action WHERE user_id = ... AND project_id = ...
UpdatedAction(user, project_id, action) ==
    [i \in DOMAIN matches_table |->
        IF matches_table[i].user_id = user /\ matches_table[i].project_id = project_id
        THEN [matches_table[i] EXCEPT !.action = action] ELSE matches_table[i]]

\* POST /projects/{project_id}/action: the user's decision on the project is
\* inserted, or replaces the one the user had.
handle_project_action ==
    /\ nrequests < MaxRequests
    /\ \E project_id \in 1..(Len(projects) + 1), sent \in Actions, user \in UserIds :
          LET action == ActionLower(sent)
              existing == \E i \in DOMAIN matches_table :
                              /\ matches_table[i].user_id = user
                              /\ matches_table[i].project_id = project_id
          IN  /\ fn' = "handle_project_action"
              /\ args' = [project_id |-> project_id, action |-> sent, user |-> user]
              /\ IF action \notin {"match", "pass"}
                 THEN ret' = [status |-> 400] /\ UNCHANGED matches_table
                 ELSE IF RowOf(project_id) = 0
                 THEN ret' = [status |-> 404] /\ UNCHANGED matches_table
                 ELSE /\ ret' = [status |-> 200, action |-> action]
                      /\ matches_table' =
                            IF existing THEN UpdatedAction(user, project_id, action)
                            ELSE Append(matches_table,
                                        [user_id |-> user, project_id |-> project_id,
                                         action |-> action])
    /\ nrequests' = nrequests + 1
    /\ UNCHANGED <<engines, scorers, matcher, _matcher, projects, produced, facadeSide>>

NextApi ==
    \/ upload_and_match_resume
    \/ match_from_profile
    \/ create_project
    \/ update_project
    \/ get_project_matches
    \/ handle_project_action

SpecApi == InitApi /\ [][NextApi]_vars

(***************************************************************************)
(* Properties of the process (checked under SpecApi)                       *)
(***************************************************************************)
\* C4: whatever requests were served, the process has constructed one
\* EmbeddingEngine and one MatchingEngine and no more (none when the
\* constructor raised), and every embedding was computed by that engine with
\* one and the same vocabulary.
C4_OneFeaturizerOneScorer ==
    /\ Len(engines) <= 1
    /\ scorers <= 1
    /\ \A a, b \in produced : a.engine = 1 /\ a.vocabulary = b.vocabulary

\* A match route answered last.
MatchRequested == fn \in {"upload_and_match_resume", "match_from_profile"}

\* C15: in the scoring loop of a match route, a pair whose scoring throws is
\* skipped and the batch is still answered: a request that had candidates to
\* score never ends in an error.
C15_FailingPairSkipped ==
    (MatchRequested /\ ret.candidates # <<>>) => ret.status = 200

\* C19: the process never serves a match request while its wrapper holds no
\* EmbeddingEngine and no MatchingEngine, and no request fails for it.
C19_NoRequestServedWithoutEngine ==
    MatchRequested => (_matcher.embedding_engine # 0 /\ ret.status # 500)

\* The user of the last request owns the project or has a decision on it.
OwnOrDecided(project_id) ==
    \/ \E j \in DOMAIN projects :
          projects[j].id = project_id /\ projects[j].owner_id = args.user
    \/ \E j \in DOMAIN matches_table :
          /\ matches_table[j].project_id = project_id
          /\ matches_table[j].user_id = args.user

\* C20: whatever projects were created and whatever decisions recorded, the
\* response to a user's match request holds no project the user owns and no
\* project the user has a decision on.
C20_OwnAndDecidedExcluded ==
    MatchRequested =>
        \A i \in DOMAIN ret.matches : ~OwnOrDecided(ret.matches[i].project_id)

\* A match request answered by a wrapper that holds an engine, while the
\* user has a decision on a project of another owner.
C20_Witness ==
    /\ MatchRequested
    /\ ret.status = 200
    /\ _matcher.embedding_engine # 0
    /\ \E j \in DOMAIN projects :
          /\ projects[j].owner_id # args.user
          /\ OwnOrDecided(projects[j].id)

(***************************************************************************)
(* Properties of the engine under concurrent callers (SpecEngine)          *)
(***************************************************************************)
\* C2: whatever the interleaving of the callers of an engine that is not
\* fit, at most one fit of the vectorizer executes.
C2_AtMostOneFit == fits <= 1

\* C3: once the vocabulary is fit it is not fit again, so that two calls
\* begun on the fit engine with the same text return the same vector.
C3_SameTextSameVector ==
    \A a, b \in embedded : a.text = b.text => a.value = b.value

(***************************************************************************)
(* Further properties of the scoring engine (checked under Spec)           *)
(***************************************************************************)
\* Two roles are the same up to case.
SameRole(a, b) == Lower(a) = Lower(b)

\* The target's roles the candidate has, each once, in lower case.
RolesInCommon(user_roles, required_roles) ==
    {Lower(r) : r \in {q \in Range(required_roles.list) :
                          \E u \in Range(OrEmpty(user_roles)) : SameRole(u, q)}}

\* C11: for a target with at least one required role, the role score is the
\* number of the target's roles the candidate has, compared without case,
\* over the number of the target's distinct roles, and matched is exactly
\* that intersection.
C11_RoleRatio ==
    (IsRoleCall /\ ~Falsy(args.required_roles)) =>
        LET common   == RolesInCommon(args.user_roles, args.required_roles)
            distinct == {Lower(r) : r \in Range(args.required_roles.list)}
        IN  /\ ret.score * Cardinality(distinct) = Unit * Cardinality(common)
            /\ ret.matched = common

\* Half of the target's roles are matched, by a role the candidate writes
\* in another case.
C11_Witness ==
    /\ IsRoleCall /\ ~Falsy(args.required_roles)
    /\ 0 < ret.score /\ ret.score < Unit
    /\ \E m \in ret.matched : m \notin Range(OrEmpty(args.user_roles))

\* calculate_experience_fit was called and returned.
ExperienceReturned == fn = "calculate_experience_fit" /\ ret.raised = "no"

\* max(0.5, 1.0 - 0.15 * gap)
BelowMin(gap) == Max2(Unit \div 2, Unit - gap * ((15 * Unit) \div 100))

\* max(0.7, 1.0 - 0.05 * gap)
AboveMax(gap) == Max2((7 * Unit) \div 10, Unit - gap * ((5 * Unit) \div 100))

\* C12 as stated: 1.0 inside [min, max], the under-minimum penalty below
\* min, the over-maximum penalty above max.
C12_ExperienceFitAsStated ==
    ExperienceReturned =>
        LET y  == args.user_exp.int
            lo == args.required_exp_min.int
            hi == args.required_exp_max.int
        IN  /\ (lo <= y /\ y <= hi) => ret.value = Unit
            /\ y < lo => ret.value = BelowMin(lo - y)
            /\ y > hi => ret.value = AboveMax(y - hi)

\* C12, amended: the over-maximum penalty applies above max unless years is
\* also below min (a target with min above max), where the under-minimum
\* penalty is applied; away from the range the score never increases.
C12_ExperienceFit ==
    ExperienceReturned =>
        LET y  == args.user_exp.int
            lo == args.required_exp_min.int
            hi == args.required_exp_max.int
        IN  /\ (lo <= y /\ y <= hi) => ret.value = Unit
            /\ y < lo => ret.value = BelowMin(lo - y)
            /\ (y > hi /\ y >= lo) => ret.value = AboveMax(y - hi)
            /\ (y < lo /\ y > 0) =>
                  calculate_experience_fit(PyInt(y - 1), args.required_exp_min,
                                           args.required_exp_max) <= ret.value
            /\ (y > hi /\ y >= lo) =>
                  calculate_experience_fit(PyInt(y + 1), args.required_exp_min,
                                           args.required_exp_max) <= ret.value

\* The candidate is so far above max that the floor 0.7 applies.
C12_Witness ==
    /\ ExperienceReturned
    /\ args.user_exp.int > args.required_exp_max.int
    /\ args.user_exp.int >= args.required_exp_min.int
    /\ Unit - (args.user_exp.int - args.required_exp_max.int) * ((5 * Unit) \div 100)
          < (7 * Unit) \div 10
    /\ ret.value = (7 * Unit) \div 10

\* Sub-scores that are all 1.0, with no shared skill (so no boost).
AllOnes ==
    [overlap |-> [score |-> Unit, shared |-> <<>>, complementary |-> <<>>],
     emb |-> Unit, roles |-> [score |-> Unit, matched |-> {}], exp |-> Unit, avail |-> Unit]

\* C13: the weights of the sub-scores that match_user_to_project adds into
\* the final score sum to 1.0: with every sub-score at 1.0 and no boost the
\* weighted sum is 1.0.
C13_CombinedWeightsSumToOne ==
    MatchReturned => BoostedScore(AllOnes) = ScoreOne

RankCalled == fn = "rank_candidates"

\* The matches of the candidates of the call that could be scored.
ScoredOfCall == ScoredMatches(args.candidates, args.project_data)

\* How often m occurs in a list.
Occurrences(m, list) == Cardinality({i \in DOMAIN list : list[i] = m})

\* a outranks b: a higher score, or the same score and more shared skills.
Outranks(a, b) ==
    \/ a.score > b.score
    \/ a.score = b.score /\ Len(a.shared_skills) > Len(b.shared_skills)

\* C14: for top_k >= 0, rank_candidates returns min(top_k, number of scored
\* candidates) of the scored matches, by score descending and among equal
\* scores by number of shared skills descending, and no match left out
\* outranks a returned one.
C14_RankedAndCut ==
    (RankCalled /\ args.top_k >= 0) =>
        /\ Len(ret) = Min2(args.top_k, Len(ScoredOfCall))
        /\ \A i, j \in DOMAIN ret : i < j => ~Outranks(ret[j], ret[i])
        /\ \A m \in Range(ret) : Occurrences(m, ret) <= Occurrences(m, ScoredOfCall)
        /\ \A m \in Range(ScoredOfCall) :
              Occurrences(m, ret) < Occurrences(m, ScoredOfCall) =>
                  \A r \in Range(ret) : ~Outranks(m, r)

\* Two candidates tie on the score, the one with fewer shared skills comes
\* first in the input, both are returned and a third match is cut off.
C14_Witness ==
    /\ RankCalled /\ args.top_k >= 0
    /\ Len(ret) < Len(ScoredOfCall)
    /\ \E i, j \in DOMAIN ScoredOfCall :
          /\ i < j
          /\ ScoredOfCall[i].score = ScoredOfCall[j].score
          /\ Len(ScoredOfCall[i].shared_skills) < Len(ScoredOfCall[j].shared_skills)
          /\ ScoredOfCall[i] \in Range(ret)
          /\ ScoredOfCall[j] \in Range(ret)

MatchCalled == fn = "match_user_to_project"

\* C16: match_user_to_project, called with records that are not None, never
\* raises, whatever is missing, null or wrongly typed in them.
C16_NeverRaises == MatchCalled => ret.raised = "no"

\* The candidate's or the target's embedding is absent.
EmbeddingAbsent ==
    \/ Get(args.user_data, "embedding", None) = None
    \/ Get(args.project_data, "embedding", None) = None

\* C17: when the candidate's or the target's embedding is absent,
\* match_user_to_project completes without error, its embedding sub-score is
\* 0.0 and the final score is the clamped weighted sum of the other four
\* sub-scores plus the shared-skill boost.
C17_AbsentEmbeddingScoresZero ==
    (MatchCalled /\ EmbeddingAbsent) =>
        /\ ret.raised = "no"
        /\ LET sub == SubScores(args.user_data, args.project_data)
           IN  /\ sub.emb = 0
               /\ ret.score = Clamp(sub.overlap.score * W_skill_overlap
                                    + sub.roles.score * W_role_match
                                    + sub.exp * W_experience_fit
                                    + sub.avail * W_availability
                                    + SharedBoost(Len(sub.overlap.shared)))

\* C18: normalize_skill is idempotent.
C18_NormalizeIdempotent ==
    fn = "normalize_skill" => normalize_skill(ret) = ret

(***************************************************************************)
(* Further properties of the process (checked under SpecApi)               *)
(***************************************************************************)
\* A match route answered last with status 200.
MatchAnswered == MatchRequested /\ ret.status = 200

\* C21: in both match routes every match of the ranked top_k list is found
\* again among the fetched projects and is in the response: the response
\* holds min(top_k, number of eligible projects) entries, in ranked order.
C21_EveryRankedMatchInResponse ==
    MatchAnswered =>
        /\ Len(ret.matches) = Min2(args.top_k, Len(ret.candidates))
        /\ \A i, j \in DOMAIN ret.matches :
              i < j => ~Outranks(ret.matches[j], ret.matches[i])

\* The owner of a project with an embedding asked for its matches.
OwnerAskedForMatches ==
    /\ fn = "get_project_matches"
    /\ RowOf(args.project_id) # 0
    /\ projects[RowOf(args.project_id)].owner_id = args.user
    /\ projects[RowOf(args.project_id)].embedding # None

\* C22: the project-matches route, called by the owner of a project that has
\* an embedding, completes with a ranked list and not with an error.
C22_ProjectMatchesCompletes ==
    OwnerAskedForMatches => ret.status = 200

(***************************************************************************)
(* Properties of match_user_to_project (checked under Spec)                *)
(***************************************************************************)
\* The sub-scores of the pair of the call.
SubOfCall == SubScores(args.user_data, args.project_data)

\* C23: the final score is the clamp to [0, 1] of 0.45 skill + 0.25 embedding
\* + 0.15 role + 0.06 experience + 0.04 availability + min(0.02 * number of
\* shared skills, 0.12): the boost is added before the clamp and no sixth
\* term (hackathon_bonus) is added.
C23_FinalScore ==
    MatchReturned =>
        LET weighted == 45 * SubOfCall.overlap.score + 25 * SubOfCall.emb
                        + 15 * SubOfCall.roles.score + 6 * SubOfCall.exp
                        + 4 * SubOfCall.avail
            boost    == Min2(2 * Unit * Len(ret.shared_skills), 12 * Unit)
        IN  ret.score = Max2(0, Min2(100 * Unit, weighted + boost))

\* Seven or more skills are shared, so the boost is capped, and the score is
\* not cut by the clamp.
C23_Witness ==
    /\ MatchReturned
    /\ Len(ret.shared_skills) >= 7
    /\ 0 < ret.score /\ ret.score < ScoreOne

\* The place of a reason line in the fixed order.
ReasonOrder(line) ==
    CASE line = "required skills matched" -> 1
      [] line = "Strong skill match!" -> 2
      [] line = "Role fit" -> 3
      [] line = "bonus skills" -> 4
      [] line = "Profile similarity" -> 5

\* The reason lines of the returned Match.
ReasonLines == {ret.reasons[i].reason : i \in DOMAIN ret.reasons}

\* The number of skills the target lists as required.
RequiredListed == Len(ProjSkills(args.project_data).list)

\* C24: the reasons of a Match hold each of the five lines exactly when its
\* trigger holds, each at most once and in the fixed order: the matched
\* count iff a skill is shared; "Strong skill match!" iff skills are
\* required and the shared ones are at least max(1, floor(0.8 * required));
\* the role fit iff a role matched; the bonus line iff the complementary list
\* has three or more entries; the similarity iff the embedding sub-score
\* exceeds 0.7.
C24_ReasonsByTrigger ==
    MatchReturned =>
        LET shared_count == Len(ret.shared_skills)
        IN  /\ \A i, j \in DOMAIN ret.reasons :
                  i < j => ReasonOrder(ret.reasons[i].reason) < ReasonOrder(ret.reasons[j].reason)
            /\ "required skills matched" \in ReasonLines <=> shared_count > 0
            /\ "Strong skill match!" \in ReasonLines <=>
                  /\ RequiredListed > 0
                  /\ 10 * shared_count >= 8 * RequiredListed - ((8 * RequiredListed) % 10)
                  /\ shared_count >= 1
            /\ "Role fit" \in ReasonLines <=> SubOfCall.roles.matched # {}
            /\ "bonus skills" \in ReasonLines <=> Len(ret.complementary_skills) >= 3
            /\ "Profile similarity" \in ReasonLines <=> 10 * SubOfCall.emb > 7 * Unit
            /\ \A i \in DOMAIN ret.reasons :
                  /\ ret.reasons[i].reason = "required skills matched" =>
                        ret.reasons[i].shared = shared_count
                  /\ ret.reasons[i].reason = "Role fit" =>
                        ret.reasons[i].roles = SubOfCall.roles.matched
                  /\ ret.reasons[i].reason = "bonus skills" =>
                        ret.reasons[i].n = Len(ret.complementary_skills)

\* Four lines are given, the bonus line among them, and "Strong skill
\* match!" is not: shared skills fall short of 0.8 of the required ones.
C24_Witness ==
    /\ MatchReturned
    /\ Len(ret.reasons) = 4
    /\ "bonus skills" \in ReasonLines
    /\ "Strong skill match!" \notin ReasonLines

\* Both records of the scored pair carry the filler as their embedding.
BothFiller ==
    /\ MatchReturned
    /\ args.user_data.embedding = PyVec(Filler.v)
    /\ args.project_data.embedding = PyVec(Filler.v)

\* The Match of the pair of the call with real embeddings that have nothing
\* in common put in the place of its two embeddings.
WithDissimilarEmbeddings ==
    match_user_to_project([args.user_data EXCEPT !.embedding = PyVec(<<1, 0>>)],
                          [args.project_data EXCEPT !.embedding = PyVec(<<0, 1>>)])

\* C25: when candidate and target both hold the filler vector, the embedding
\* sub-score does not exceed 0.7, no "Profile similarity" reason is given,
\* and the final score is not above that of the same pair scored with real,
\* dissimilar embeddings.
C25_FillerUninformative ==
    BothFiller =>
        /\ 10 * SubOfCall.emb <= 7 * Unit
        /\ "Profile similarity" \notin ReasonLines
        /\ ret.score <= WithDissimilarEmbeddings.score

(***************************************************************************)
(* Properties of EmbeddingEngine.cosine_similarity (checked under Spec)    *)
(***************************************************************************)
CosineCalled == fn = "cosine_similarity"

\* A vector is absent.
VectorAbsent == args.v1 = None \/ args.v2 = None

\* Two vectors of one width.
SameWidth == ~VectorAbsent /\ Len(args.v1.vec) = Len(args.v2.vec)

\* One of two vectors of one width is the zero vector.
ZeroVector ==
    /\ SameWidth
    /\ \/ \A i \in DOMAIN args.v1.vec : args.v1.vec[i] = 0
       \/ \A i \in DOMAIN args.v2.vec : args.v2.vec[i] = 0

\* c is (v1 . v2) / (|v1| |v2|) in 1/Unit, rounded toward zero.
IsCosineOf(c, v1, v2) ==
    LET d   == Dot(v1, v2)
        n   == Dot(v1, v1) * Dot(v2, v2)
        mag == IF c >= 0 THEN c ELSE 0 - c
    IN  /\ (d > 0 => c >= 0) /\ (d < 0 => c <= 0)
        /\ mag * mag * n <= Unit * Unit * d * d
        /\ Unit * Unit * d * d < (mag + 1) * (mag + 1) * n

\* C26: cosine_similarity returns 0.0 and raises nothing when a vector is
\* absent (None) or one of them is the zero vector; for two other vectors of
\* one width it returns their cosine.
C26_CosineTotal ==
    CosineCalled =>
        /\ (VectorAbsent \/ ZeroVector) => (ret.raised = "no" /\ ret.value = 0)
        /\ (SameWidth /\ ~ZeroVector) =>
              (ret.raised = "no" /\ IsCosineOf(ret.value, args.v1.vec, args.v2.vec))

(***************************************************************************)
(* Properties of the ranking and of the reasons (checked under Spec)       *)
(***************************************************************************)
\* C27: match_from_profile orders scored matches as rank_candidates and
\* upload_and_match do, by score descending and among equal scores by the
\* number of shared skills descending: its sort and cut applied to the
\* scored matches of a call of rank_candidates gives what that call returns.
C27_ProfileRouteSameOrder ==
    (RankCalled /\ args.top_k >= 0) =>
        Slice(SortedByScore(ScoredOfCall), args.top_k) = ret

\* The distinct normalized required skills of the target of the call.
RequiredKeys == KeySet(ProjSkills(args.project_data))

\* C28: the required count of the reason "n/m required skills matched" is
\* the denominator of the overlap ratio, the number of distinct normalized
\* required skills, also when two spellings share a key; so the reason reads
\* n/n exactly when every required key is shared.
C28_RequiredCountIsDenominator ==
    MatchReturned =>
        \A i \in DOMAIN ret.reasons :
            ret.reasons[i].reason = "required skills matched" =>
                /\ ret.reasons[i].required = Cardinality(RequiredKeys)
                /\ (ret.reasons[i].shared = ret.reasons[i].required) <=>
                      (Len(ret.shared_skills) = Cardinality(RequiredKeys))

(***************************************************************************)
(* Monotonicity of the scores in the candidate's skills (SpecMatch)        *)
(***************************************************************************)
\* The skills of the candidate of the call.
SkillsOfCall == OrEmpty(Or(Get(args.user_data, "skills", PyList(<<>>)), PyList(<<>>)))

\* The skills one may add: the second spelling of "py", a skill of the
\* first half and the last one of the pool, and two of the skills that only
\* the target of ten skills asks for.
MoreSkills == {SkillPool[2], SkillPool[3], SkillPool[7], <<"d">>, <<"v">>}

\* The candidate of the call with one more skill.
WithSkill(s) == [args.user_data EXCEPT !.skills = PyList(Append(SkillsOfCall, s))]

\* The skill score of the candidate with one more skill.
SkillScoreWith(s) ==
    calculate_skill_overlap(PyList(Append(SkillsOfCall, s)), ProjSkills(args.project_data)).score

\* The final score of the candidate with one more skill.
FinalScoreWith(s) == match_user_to_project(WithSkill(s), args.project_data).score

\* C30: one more skill on the candidate, the target unchanged, lowers
\* neither the skill score nor the final score of the pair.
C30_MoreSkillsNeverLower ==
    MatchReturned =>
        \A s \in MoreSkills :
            /\ SkillScoreWith(s) >= SubOfCall.overlap.score
            /\ FinalScoreWith(s) >= ret.score

\* One skill the target requires and the candidate lacks raises both scores,
\* and so does a skill the target does not ask for.
C30_Witness ==
    /\ MatchReturned
    /\ \E s \in MoreSkills :
          /\ normalize_skill(s) \in RequiredKeys
          /\ SkillScoreWith(s) > SubOfCall.overlap.score
          /\ FinalScoreWith(s) > ret.score
    /\ \E s \in MoreSkills :
          /\ normalize_skill(s) \notin RequiredKeys
          /\ SkillScoreWith(s) > SubOfCall.overlap.score
          /\ FinalScoreWith(s) > ret.score

(***************************************************************************)
(* SpecSwipe: concurrent requests of POST /projects/{project_id}/action.   *)
(* The route is a plain def, which FastAPI runs on a thread of its pool;   *)
(* every request has a session of its own (app/db/session.py).  A request  *)
(* is at a line of handle_project_action.  The SELECTs read what is        *)
(* committed; the first write of a session opens its transaction and takes *)
(* the write lock of the database, which it keeps up to its commit.        *)
(***************************************************************************)
\* A thread of the pool that serves no request.
SwipeIdle == [pc |-> "idle", user |-> 0, project_id |-> 0, action |-> "", existing |-> FALSE]

\* One project is there, nobody has decided on it.
InitSwipe ==
    /\ fn = "none"
    /\ args = None
    /\ ret = None
    /\ embedding_engine = None
    /\ ncalls = 0
    /\ callers = [c \in Callers |-> SwipeIdle]
    /\ fits = 0
    /\ embedded = {}
    /\ engines = <<>>
    /\ scorers = 0
    /\ matcher = [embedding_engine |-> 0]
    /\ _matcher = None
    /\ projects = <<[id |-> 1, owner_id |-> 1, title |-> PyStr(<<>>), description |-> None,
                     required_skills |-> PyList(<<>>), timezone |-> None,
                     embedding |-> None]>>
    /\ matches_table = <<>>
    /\ produced = {}
    /\ nrequests = 0

\* What a step of a request leaves alone.
swipeSide == <<embedding_engine, ncalls, fits, embedded, engines, scorers, matcher,
               _matcher, projects, produced>>

\* Lines 286-298: the action is lowered and tested, the project looked up.
Swipe286(c) ==
    /\ callers[c].pc = "idle"
    /\ nrequests < MaxRequests
    /\ \E project_id \in 1..(Len(projects) + 1), sent \in Actions, user \in UserIds :
          IF ActionLower(sent) \notin {"match", "pass"} \/ RowOf(project_id) = 0
          THEN /\ fn' = "handle_project_action"
               /\ args' = [project_id |-> project_id, action |-> sent, user |-> user]
               /\ ret' = [status |-> IF ActionLower(sent) \notin {"match", "pass"}
                                     THEN 400 ELSE 404]
               /\ UNCHANGED callers
          ELSE /\ callers' = [callers EXCEPT ![c] =
                                 [pc |-> "301", user |-> user, project_id |-> project_id,
                                  action |-> ActionLower(sent), existing |-> FALSE]]
               /\ UNCHANGED <<fn, args, ret>>
    /\ nrequests' = nrequests + 1
    /\ UNCHANGED <<matches_table, swipeSide>>

\* Lines 301-304: SELECT id FROM matches WHERE user_id = ... AND project_id = ...
Swipe301(c) ==
    /\ callers[c].pc = "301"
    /\ callers' = [callers EXCEPT
                      ![c].pc = "306",
                      ![c].existing =
                          \E i \in DOMAIN matches_table :
                              /\ matches_table[i].user_id = callers[c].user
                              /\ matches_table[i].project_id = callers[c].project_id]
    /\ UNCHANGED <<fn, args, ret, nrequests, matches_table, swipeSide>>

\* Lines 306-319: the UPDATE or the INSERT is executed in the request's
\* transaction, once no other request holds the write lock.
Swipe306(c) ==
    /\ callers[c].pc = "306"
    /\ \A d \in Callers : callers[d].pc # "322"
    /\ callers' = [callers EXCEPT ![c].pc = "322"]
    /\ UNCHANGED <<fn, args, ret, nrequests, matches_table, swipeSide>>

\* Line 322: db.commit() makes the write visible, and the request answers.
\* No other request has written since line 306, so the rows the UPDATE
\* changed are those of the pair now.
Swipe322(c) ==
    /\ callers[c].pc = "322"
    /\ matches_table' =
          IF callers[c].existing
          THEN UpdatedAction(callers[c].user, callers[c].project_id, callers[c].action)
          ELSE Append(matches_table,
                      [user_id |-> callers[c].user, project_id |-> callers[c].project_id,
                       action |-> callers[c].action])
    /\ fn' = "handle_project_action"
    /\ args' = [project_id |-> callers[c].project_id, action |-> callers[c].action,
                user |-> callers[c].user]
    /\ ret' = [status |-> 200, action |-> callers[c].action]
    /\ callers' = [callers EXCEPT ![c] = SwipeIdle]
    /\ UNCHANGED <<nrequests, swipeSide>>

NextSwipe ==
    \/ \E c \in Callers : Swipe286(c)
    \/ \E c \in Callers : Swipe301(c)
    \/ \E c \in Callers : Swipe306(c)
    \/ \E c \in Callers : Swipe322(c)

SpecSwipe == InitSwipe /\ [][NextSwipe]_vars

(***************************************************************************)
(* Properties of the decisions under concurrent requests (SpecSwipe)       *)
(***************************************************************************)
\* The rows of the matches table of one user and one project.
RowsOfPair(user, project_id) ==
    {i \in DOMAIN matches_table :
        matches_table[i].user_id = user /\ matches_table[i].project_id = project_id}

\* C29: whatever the interleaving of the swipe requests, those of one user
\* on one project included, the matches table holds at most one row per
\* user and project, and that row carries the action of the request that
\* committed last.
C29_OneRowPerPair ==
    /\ \A i, j \in DOMAIN matches_table :
          (/\ matches_table[i].user_id = matches_table[j].user_id
           /\ matches_table[i].project_id = matches_table[j].project_id) => i = j
    /\ (fn = "handle_project_action" /\ ret.status = 200) =>
          \A i \in RowsOfPair(args.user, args.project_id) :
              matches_table[i].action = ret.action

=============================================================================
